---- MODULE Spec2Model ----
(***************************************************************************)
(* A model of the MOE scrubber (src/moe/scrubber/scrubber.py): the         *)
(* ScannedFile content lifecycle, the dispatcher (FindFiles, Scan, the     *)
(* batch scrubbers, _GetExtension, ScrubbersForFile) and the emitter       *)
(* (WriteOutput).                                                          *)
(*                                                                         *)
(* Python strings are sequences of one-character strings, file contents    *)
(* are sequences of byte values (on disk) or of code points (decoded).     *)
(* Three specifications share the variables:                               *)
(*   SpecExt   applies _GetExtension to bounded file names,                *)
(*   SpecFile  runs bounded sequences of ScannedFile operations on a file, *)
(*   Spec      is one run of main: FindFiles, Scan, WriteOutput, Status.   *)
(***************************************************************************)
EXTENDS Integers, Sequences, FiniteSets, TLC

VARIABLES
  pc,                          \* position of main / of the specification
  config,                      \* what is set of the ScrubberConfig of the run
  disk,                        \* the file system: full path -> bytes
  files,                       \* ScrubberContext.files: sequence of ScannedFile
  errors,                      \* ScrubberContext._errors
  unscrubbed_file_extensions,  \* ScrubberContext._unscrubbed_file_extensions
  files_to_scrub,              \* Scan: indices of files for which ShouldScrubFile
  batch_left,                  \* _RunBatchScrubbers: extensions still to iterate
  fi,                          \* Scan: position in files_to_scrub
  ri,                          \* Scan: position in the file's scrubber list
  ei,                          \* WriteOutput: position in files
  tree,                        \* temp dir: output/, originals/, modified/
  diffs,                       \* temp dir: diffs/
  log,                         \* history: the scrubber invocations so far
  submitted,                   \* history: the errors handed to AddError so far
  subprocesses,                \* history: the diff and tar runs of WriteOutput
  status,                      \* exit status of main
  ret,                         \* SpecFile: the last operation and what it returned
  nops,                        \* SpecFile: number of operations performed
  ext_in,                      \* SpecExt, SpecMode, SpecTr: the arguments of the call
  ext_out                      \* SpecExt, SpecMode, SpecTr: what the call returned

runVars == <<config, errors, unscrubbed_file_extensions, files_to_scrub,
             batch_left, fi, ri, ei, tree, diffs, log, submitted, subprocesses,
             status>>
fileVars == <<ret, nops>>
extVars == <<ext_in, ext_out>>
vars == <<pc, disk, files, runVars, fileVars, extVars>>

-----------------------------------------------------------------------------
(* Bounds of the model. *)

\* Longest file name given to _GetExtension in SpecExt.
MaxNameLen == 4
\* Number of ScannedFile operations in one behaviour of SpecFile.
MaxOps == 4
\* Largest number of input files of a run in Spec.
MaxFiles == 2
\* Number of AddError calls in one behaviour of SpecErr.
MaxErrors == 3
\* Longest sequence of translators handed to TranslateToProjectSpace.
MaxTranslators == 2

-----------------------------------------------------------------------------
(* Python values. *)

\* None, as the value of ScannedFile._contents before the first load.
None == <<-1>>
\* Python truthiness of a string-or-None value: "not x".
Falsy(x) == x = None \/ x = <<>>

Min(S) == CHOOSE m \in S : \A n \in S : m <= n

\* s.startswith(p)
StartsWith(s, p) == Len(s) >= Len(p) /\ SubSeq(s, 1, Len(p)) = p

\* s.find(p): the first index (from 1) at which p occurs in s, 0 if none.
Find(s, p) ==
  LET at == {i \in 1..(Len(s) - Len(p) + 1) : SubSeq(s, i, i + Len(p) - 1) = p}
  IN IF at = {} THEN 0 ELSE Min(at)

\* s.rfind(c) for one character c: the last index (from 1), 0 if none.
RFind(s, c) ==
  LET at == {i \in 1..Len(s) : s[i] = c}
  IN IF at = {} THEN 0 ELSE CHOOSE m \in at : \A n \in at : n <= m

\* s.replace(old, new): every non-overlapping occurrence, left to right; an
\* empty old matches before every character and at the end.
RECURSIVE Replace(_, _, _)
Replace(s, old, new) ==
  IF old = <<>>
    THEN IF s = <<>> THEN new
         ELSE new \o <<s[1]>> \o Replace(Tail(s), old, new)
    ELSE IF Len(s) < Len(old) THEN s
         ELSE IF SubSeq(s, 1, Len(old)) = old
           THEN new \o Replace(SubSeq(s, Len(old) + 1, Len(s)), old, new)
           ELSE <<s[1]>> \o Replace(Tail(s), old, new)

\* s.replace(old, new, 1): the first occurrence only.
ReplaceFirst(s, old, new) ==
  LET i == Find(s, old)
  IN IF i = 0 THEN s
     ELSE SubSeq(s, 1, i - 1) \o new \o SubSeq(s, i + Len(old), Len(s))

\* re.search of a pattern without metacharacters: substring search.  NoMatch
\* is the pattern '$a', which matches no string.
NoMatch == <<"$", "a">>
Search(re, s) == re # NoMatch /\ Find(s, re) # 0

\* os.path.basename(p)
Basename(p) == SubSeq(p, RFind(p, "/") + 1, Len(p))

\* os.path.splitext(p): the extension starts at the last dot of the last
\* component, unless only dots precede it there.
Splitext(p) ==
  LET sepIndex == RFind(p, "/")
      dotIndex == RFind(p, ".")
  IN IF dotIndex > sepIndex
        /\ \E k \in (sepIndex + 1)..(dotIndex - 1) : p[k] # "."
       THEN <<SubSeq(p, 1, dotIndex - 1), SubSeq(p, dotIndex, Len(p))>>
       ELSE <<p, <<>> >>

-----------------------------------------------------------------------------
(* ScrubberContext._GetExtension *)

_GetExtension(extension_map, filename) ==
  LET basename == Basename(filename)
      hits == {i \in 1..Len(extension_map) : Search(extension_map[i][1], filename)}
      extension == Splitext(basename)[2]
  IN IF hits # {} THEN extension_map[Min(hits)][2]
     ELSE IF extension = <<>> /\ StartsWith(filename, <<".">>) THEN filename
     ELSE extension


-----------------------------------------------------------------------------
(* ScannedFile *)

\* ScannedFile.__init__.  loads is a history field: the number of times
\* Contents() has read the source file.
ScannedFile(filename, relative_filename, output_relative_filename) ==
  [filename |-> filename,
   relative_filename |-> relative_filename,
   output_relative_filename |-> output_relative_filename,
   is_modified |-> FALSE,
   contents |-> None,
   in_unicode |-> FALSE,
   is_deleted |-> FALSE,
   loads |-> 0]

\* bytes.decode('utf-8') for one- and two-byte sequences: ok is FALSE where
\* Python raises UnicodeDecodeError.
RECURSIVE Utf8Decode(_)
Utf8Decode(b) ==
  IF b = <<>> THEN [ok |-> TRUE, text |-> <<>>]
  ELSE IF b[1] < 128
    THEN LET r == Utf8Decode(Tail(b))
         IN [ok |-> r.ok, text |-> <<b[1]>> \o r.text]
  ELSE IF b[1] >= 194 /\ b[1] <= 223 /\ Len(b) >= 2 /\ b[2] >= 128 /\ b[2] <= 191
    THEN LET r == Utf8Decode(SubSeq(b, 3, Len(b)))
         IN [ok |-> r.ok, text |-> <<(b[1] - 192) * 64 + (b[2] - 128)>> \o r.text]
  ELSE [ok |-> FALSE, text |-> <<>>]

\* text.encode('utf-8') for code points below 2048.
RECURSIVE Utf8Encode(_)
Utf8Encode(t) ==
  IF t = <<>> THEN <<>>
  ELSE (IF t[1] < 128 THEN <<t[1]>>
        ELSE <<192 + (t[1] \div 64), 128 + (t[1] % 64)>>) \o Utf8Encode(Tail(t))

\* ScannedFile._ReadContents, given the bytes of the file.
_ReadContents(bytes) ==
  LET d == Utf8Decode(bytes)
  IN IF d.ok THEN [contents |-> d.text, in_unicode |-> TRUE]
     ELSE [contents |-> bytes, in_unicode |-> FALSE]

\* _PossiblyEncode encoding whatever it is given.
_PossiblyEncodeAlways(contents, in_unicode) == Utf8Encode(contents)

\* ScannedFile._PossiblyEncode
_PossiblyEncode(contents, in_unicode) ==
  IF in_unicode THEN Utf8Encode(contents) ELSE contents

\* Whether Contents() has to open the source file, and whether that raises.
ContentsReads(f) == Falsy(f.contents)
ContentsRaises(f, d) == ContentsReads(f) /\ f.filename \notin DOMAIN d

\* ScannedFile.Contents: the file after the call; the call returns its contents.
Contents(f, d) ==
  IF Falsy(f.contents)
    THEN LET r == _ReadContents(d[f.filename])
         IN [f EXCEPT !.contents = r.contents, !.in_unicode = r.in_unicode,
                      !.loads = @ + 1]
    ELSE f

\* ScannedFile.RewriteContent
RewriteContent(f, old_text, new_text) ==
  [f EXCEPT !.contents = Replace(f.contents, old_text, new_text),
            !.is_modified = TRUE]

\* ScannedFile.WriteContents
WriteContents(f, new_text) ==
  IF f.contents = new_text THEN f
  ELSE [f EXCEPT !.contents = new_text, !.is_modified = TRUE]

\* Python's & and | on non-negative ints.
RECURSIVE BitAnd(_, _)
BitAnd(a, b) ==
  IF a = 0 \/ b = 0 THEN 0
  ELSE 2 * BitAnd(a \div 2, b \div 2) + (IF a % 2 = 1 /\ b % 2 = 1 THEN 1 ELSE 0)

RECURSIVE BitOr(_, _)
BitOr(a, b) ==
  IF a = 0 THEN b
  ELSE IF b = 0 THEN a
  ELSE 2 * BitOr(a \div 2, b \div 2) + (IF a % 2 = 1 \/ b % 2 = 1 THEN 1 ELSE 0)

\* stat.S_IEXEC (0100) and stat.S_IFREG (0100000)
S_IEXEC == 64
S_IFREG == 32768

\* ScannedFile.Mode, given the st_mode os.stat finds for the source file.
Mode(st_mode) ==
  LET temp == IF BitAnd(st_mode, S_IEXEC) # 0 THEN BitOr(6, 1) ELSE 6
  IN temp + (temp * 8) + (temp * 64)

\* ScannedFile.Delete
Delete(f) ==
  [f EXCEPT !.is_deleted = TRUE, !.contents = <<>>, !.is_modified = TRUE]

\* ScannedFile.WriteToFile: the bytes written (the file itself becomes
\* Contents(f, d)).
WriteToFileBytes(f, d, original) ==
  LET g == Contents(f, d)
  IN IF original
       THEN LET r == _ReadContents(d[f.filename])
            IN _PossiblyEncode(r.contents, r.in_unicode)
       ELSE _PossiblyEncode(g.contents, g.in_unicode)

-----------------------------------------------------------------------------
(* Values the variables of a specification hold while it does not use them. *)

IdleRun ==
  /\ config = <<>>
  /\ errors = <<>>
  /\ unscrubbed_file_extensions = {}
  /\ files_to_scrub = <<>>
  /\ batch_left = {}
  /\ fi = 0
  /\ ri = 0
  /\ ei = 0
  /\ tree = <<>>
  /\ diffs = <<>>
  /\ log = <<>>
  /\ submitted = <<>>
  /\ subprocesses = <<>>
  /\ status = -1

IdleFile == ret = <<>> /\ nops = 0

IdleExt == ext_in = <<>> /\ ext_out = <<>>

-----------------------------------------------------------------------------
(* SpecExt: _GetExtension on every relative file name of up to MaxNameLen  *)
(* characters, under each extension_map of ExtensionMaps.                  *)

NameChars == {"/", ".", "a", "c"}

RECURSIVE Strings(_, _)
Strings(chars, n) ==
  IF n = 0 THEN {<<>>}
  ELSE LET shorter == Strings(chars, n - 1)
       IN shorter \cup {Append(s, c) : s \in {t \in shorter : Len(t) = n - 1}, c \in chars}

\* The components of a path, split at "/".
RECURSIVE Components(_)
Components(p) ==
  LET i == Find(p, <<"/">>)
  IN IF i = 0 THEN <<p>>
     ELSE <<SubSeq(p, 1, i - 1)>> \o Components(SubSeq(p, i + 1, Len(p)))

\* A name RelativeFilename can return for a file found under the codebase:
\* no empty component, and no component "." or "..".
ValidRelative(p) ==
  LET cs == Components(p)
  IN \A k \in 1..Len(cs) : cs[k] \notin {<<>>, <<".">>, <<".", ".">>}

ExtensionMaps ==
  { <<>>,
    << <<<<"c">>, <<".", "x">>>> >>,
    << <<<<"a", ".">>, <<".", "y">>>>, <<<<"a">>, <<".", "z">>>> >> }

InitExt ==
  /\ pc = "ext"
  /\ ext_in \in [filename : {p \in Strings(NameChars, MaxNameLen) : ValidRelative(p)},
                 extension_map : ExtensionMaps]
  /\ ext_out = <<>>
  /\ disk = <<>>
  /\ files = <<>>
  /\ IdleRun
  /\ IdleFile

ResolveExtension ==
  /\ pc = "ext"
  /\ ext_out' = _GetExtension(ext_in.extension_map, ext_in.filename)
  /\ pc' = "ext_done"
  /\ UNCHANGED <<ext_in, disk, files, runVars, fileVars>>

NextExt == ResolveExtension

SpecExt == InitExt /\ [][NextExt]_vars

\* The resolution rule as the specification words it: the whole basename for
\* a dotfile without extension, whatever the directory.
DocumentedExtension(extension_map, filename) ==
  LET basename == Basename(filename)
      hits == {i \in 1..Len(extension_map) : Search(extension_map[i][1], filename)}
      extension == Splitext(basename)[2]
  IN IF hits # {} THEN extension_map[Min(hits)][2]
     ELSE IF extension # <<>> THEN extension
     ELSE IF StartsWith(basename, <<".">>) THEN basename
     ELSE <<>>

\* C9: the extension resolved is the first matching extension_map entry's,
\* else the real extension of the basename, else the whole basename of a
\* dotfile, else the empty string, for a file at any directory depth.
C9_ExtensionResolution ==
  pc = "ext_done" =>
    ext_out = DocumentedExtension(ext_in.extension_map, ext_in.filename)

-----------------------------------------------------------------------------
(* SpecFile: up to MaxOps ScannedFile operations, in any order, on one     *)
(* file whose source holds any of SourceBytes.                             *)

\* The codebase directory and a file in it.
Codebase == <<"/", "r">>
FullName(relative_filename) == Codebase \o <<"/">> \o relative_filename

\* What a source file may hold: nothing, ASCII text, two-byte UTF-8 text,
\* and two byte strings that are not UTF-8 (binary files).
SourceBytes ==
  { <<>>, <<97>>, <<97, 98>>, <<195, 169>>, <<255>>, <<97, 195>> }

\* The texts a scrubber writes and the texts it replaces.
Texts == { <<>>, <<97>>, <<98>>, <<233>> }
Rewrites == { <<<<97>>, <<98>>>>, <<<<97>>, <<>> >>, <<<<97>>, <<97>>>>, << <<>>, <<98>>>> }

TheFile == <<"a", ".", "c">>

InitFile ==
  /\ pc = "file"
  /\ \E b \in SourceBytes : disk = (FullName(TheFile) :> b)
  /\ files = <<ScannedFile(FullName(TheFile), TheFile, TheFile)>>
  /\ ret = [op |-> "init", val |-> <<>>, before |-> None, read |-> FALSE]
  /\ nops = 0
  /\ IdleRun
  /\ IdleExt

\* One more operation on the file: it becomes g, and the call returned val;
\* before is the content held when the call was made, and read tells whether
\* the call opened the source file inside Contents().
FileOp(op, g, val) ==
  /\ pc = "file"
  /\ nops < MaxOps
  /\ nops' = nops + 1
  /\ files' = <<g>>
  /\ ret' = [op |-> op, val |-> val, before |-> files[1].contents,
             read |-> g.loads > files[1].loads]
  /\ UNCHANGED <<pc, disk, runVars, extVars>>

CallContents ==
  LET g == Contents(files[1], disk)
  IN FileOp("Contents", g, g.contents)

CallIsBinaryFile ==
  LET g == Contents(files[1], disk)
  IN FileOp("IsBinaryFile", g, IF g.in_unicode THEN <<0>> ELSE <<1>>)

\* RewriteContent raises on a file never loaded (None has no replace).
CallRewriteContent ==
  /\ files[1].contents # None
  /\ \E r \in Rewrites :
       FileOp("RewriteContent", RewriteContent(files[1], r[1], r[2]), <<>>)

CallWriteContents ==
  \E t \in Texts : FileOp("WriteContents", WriteContents(files[1], t), <<>>)

CallDelete == FileOp("Delete", Delete(files[1]), <<>>)

\* WriteToFile to a path outside the codebase: val is what was written.
CallWriteToFile ==
  \E original \in BOOLEAN :
    FileOp("WriteToFile", Contents(files[1], disk),
           WriteToFileBytes(files[1], disk, original))

\* ContentsFilename: val is the content of the file whose name is returned,
\* the source itself or the copy written under the scratch directory.
CallContentsFilename ==
  LET g == Contents(files[1], disk)
  IN IF ~g.is_modified
       THEN FileOp("ContentsFilename", g, disk[g.filename])
       ELSE FileOp("ContentsFilename", Contents(g, disk),
                   WriteToFileBytes(g, disk, FALSE))

NextFile ==
  \/ CallContents
  \/ CallIsBinaryFile
  \/ CallRewriteContent
  \/ CallWriteContents
  \/ CallDelete
  \/ CallWriteToFile
  \/ CallContentsFilename

SpecFile == InitFile /\ [][NextFile]_vars

\* C1: once is_deleted is true, is_modified is true and the content held by
\* the file, and returned by Contents(), is the empty text.
C1_DeletedIsEmpty ==
  (pc = "file" /\ files[1].is_deleted) =>
    /\ files[1].is_modified
    /\ files[1].contents = <<>>
    /\ (ret.op = "Contents" => ret.val = <<>>)

\* C6: only the first Contents() call reads the source file; a later call
\* returns the content in memory without reading the source again.
C6_ContentsReadsOnce ==
  pc = "file" =>
    /\ files[1].loads <= 1
    /\ (ret.op = "Contents" /\ ret.before # None) =>
         (~ret.read /\ ret.val = ret.before)

\* C17: RewriteContent and WriteContents set is_modified when the call
\* changes the text held, and leave is_modified as it was when it does not.
C17_ModifiedIffTextChanged ==
  [][(pc = "file" /\ ret'.op \in {"RewriteContent", "WriteContents"}
        /\ nops' = nops + 1) =>
       files'[1].is_modified =
         (files[1].is_modified \/ files'[1].contents # files[1].contents)]_vars

-----------------------------------------------------------------------------
(* Spec: one run of main.  The input of a run.                             *)

\* The files a codebase may hold: relative name and bytes.
Pool ==
  { [name |-> <<"a", ".", "j", "j">>, bytes |-> <<97>>],
    [name |-> <<"b", ".", "j", "j">>, bytes |-> <<98>>],
    [name |-> <<"a", ".", "c">>, bytes |-> <<97, 195, 169>>],
    [name |-> <<"a", ".", "c", ".", "t", "m", "p">>, bytes |-> <<98>>],
    [name |-> <<"e", ".", "x">>, bytes |-> <<>>],
    [name |-> <<"R", "E", "A", "D", "M", "E">>, bytes |-> <<97>>],
    [name |-> <<"p", ".", "p", "n", "g">>, bytes |-> <<255>>],
    [name |-> <<"i", "/", "a", ".", "c">>, bytes |-> <<97>>],
    [name |-> <<"n", ".", "c">>, bytes |-> <<97>>] }

PoolBytes(name) == (CHOOSE e \in Pool : e.name = name).bytes

\* The sequences of up to n distinct names of Pool: the orders in which
\* os.walk may list the files of a codebase.
RECURSIVE FileLists(_)
FileLists(n) ==
  IF n = 0 THEN {<<>>}
  ELSE LET shorter == FileLists(n - 1)
       IN shorter \cup
          UNION { {Append(l, e.name) :
                     e \in {x \in Pool : \A k \in 1..Len(l) : l[k] # x.name}} :
                  l \in {t \in shorter : Len(t) = n - 1} }

\* Scrubbers.  The scrubber classes are called through ScrubFile and
\* BatchScrubFiles only; a scrubber here is one use of the ScannedFile and
\* ScrubberContext interface: it reads the contents, and then rewrites a
\* text, writes a text, deletes the file or adds an error.
Reader(n) == [name |-> n, kind |-> "read"]
Rewriter(n, old, new) == [name |-> n, kind |-> "rewrite", old |-> old, new |-> new]
Writer(n, text) == [name |-> n, kind |-> "write", text |-> text]
Deleter(n) == [name |-> n, kind |-> "delete"]
Reporter(n) == [name |-> n, kind |-> "error"]

Ext_jj == <<".", "j", "j">>
Ext_c == <<".", "c">>
Ext_png == <<".", "p", "n", "g">>

\* Two settings of the scrubber tables (the extension_to_scrubber_map and
\* default_scrubbers arguments of ScrubberConfig, and the batch maps).
ScrubberTables ==
  << [extension_to_scrubber_map |->
        (Ext_jj :> <<Rewriter("jj1", <<97>>, <<233>>), Deleter("jj2"), Reporter("jj3")>>)
        @@ (Ext_c :> <<Rewriter("c1", <<97>>, <<98>>), Reporter("c2")>>)
        @@ (Ext_png :> <<>>),
      default_scrubbers |-> <<Writer("default1", <<>>), Reporter("default2")>>,
      extension_to_pre_batch_scrubbers_map |->
        (Ext_c :> <<Reader("pre_c")>>) @@ (Ext_jj :> <<Reader("pre_jj")>>),
      extension_to_post_batch_scrubbers_map |->
        (Ext_jj :> <<Reporter("post_jj")>>)],
     [extension_to_scrubber_map |->
        (Ext_jj :> <<Rewriter("jj1", <<97>>, <<98>>), Reporter("jj2")>>)
        @@ (Ext_c :> <<Writer("c1", <<>>)>>)
        @@ (Ext_png :> <<>>),
      default_scrubbers |-> <<Rewriter("default1", <<97>>, <<97>>)>>,
      extension_to_pre_batch_scrubbers_map |->
        (Ext_c :> <<Reporter("pre_c")>>) @@ (Ext_jj :> <<Writer("pre_jj", <<98>>)>>),
      extension_to_post_batch_scrubbers_map |->
        (Ext_jj :> <<Deleter("post_jj")>>)] >>

\* ScrubberConfig.known_filenames
known_filenames ==
  { <<".", "g", "i", "t", "i", "g", "n", "o", "r", "e">>,
    <<"A", "U", "T", "H", "O", "R", "S">>,
    <<"C", "O", "N", "T", "R", "I", "B", "U", "T", "O", "R", "S">>,
    <<"C", "O", "P", "Y", "I", "N", "G">>,
    <<"L", "I", "C", "E", "N", "S", "E">>,
    <<"M", "a", "k", "e", "f", "i", "l", "e">>,
    <<"R", "E", "A", "D", "M", "E">> }

\* What varies from run to run: the input files, the flags --modify and
\* --output_tar, and which of ScrubberTables is in use.
Runs(lists) ==
  [input_files : lists, modify : BOOLEAN, output_tar : BOOLEAN,
   tables : DOMAIN ScrubberTables]

\* The ScrubberConfig of a run: what varies, and fixed general options.
ScrubberConfig(run) ==
  [codebase |-> Codebase,
   input_files |-> run.input_files,
   ignore_files_re |-> <<"i", "/">>,
   do_not_scrub_files_re |-> <<"n", ".">>,
   extension_map |-> << <<<<"e", ".", "x">>, Ext_c>> >>,
   whitelist |-> {[filter |-> "", trigger |-> <<>>, filename |-> <<"e", ".", "x">>],
                  [filter |-> "jj2", trigger |-> <<>>, filename |-> <<>>]},
   known_filenames |-> known_filenames,
   modify |-> run.modify,
   output_tar |-> run.output_tar,
   extension_to_scrubber_map |-> ScrubberTables[run.tables].extension_to_scrubber_map,
   default_scrubbers |-> ScrubberTables[run.tables].default_scrubbers,
   extension_to_pre_batch_scrubbers_map |->
     ScrubberTables[run.tables].extension_to_pre_batch_scrubbers_map,
   extension_to_post_batch_scrubbers_map |->
     ScrubberTables[run.tables].extension_to_post_batch_scrubbers_map]

\* The source tree at the start of a run: the input files.
SourceTree(input_files) ==
  [q \in {input_files[k] : k \in 1..Len(input_files)} |->
     PoolBytes(SubSeq(q, Len(Codebase) + 2, Len(q)))]

Init ==
  /\ pc = "find"
  /\ config \in Runs({[k \in 1..Len(l) |-> FullName(l[k])] : l \in FileLists(MaxFiles)})
  /\ disk = SourceTree(config.input_files)
  /\ files = <<>>
  /\ errors = <<>>
  /\ unscrubbed_file_extensions = {}
  /\ files_to_scrub = <<>>
  /\ batch_left = {}
  /\ fi = 0
  /\ ri = 0
  /\ ei = 0
  /\ tree = [output |-> <<>>, originals |-> <<>>, modified |-> <<>>]
  /\ diffs = <<>>
  /\ log = <<>>
  /\ submitted = <<>>
  /\ subprocesses = <<>>
  /\ status = -1
  /\ IdleFile
  /\ IdleExt

\* The ScrubberConfig of the run.
Config == ScrubberConfig(config)

-----------------------------------------------------------------------------
(* ScrubberContext: construction and Scan. *)

\* ScrubberContext.RelativeFilename (the input names are absolute already)
RelativeFilename(codebase, filename) ==
  LET result == ReplaceFirst(filename, codebase, <<>>)
  IN IF result[1] = "/" THEN Tail(result) ELSE result

\* FindFiles: whether an input file is left out of the file list.
IgnoreFile(cfg, relative_filename) ==
  Search(cfg.ignore_files_re, relative_filename)

\* ScrubberContext.FindFiles, with an empty rearranging_config (no renamer).
FindFiles(cfg) ==
  LET kept == SelectSeq(cfg.input_files,
                        LAMBDA n : ~IgnoreFile(cfg, RelativeFilename(cfg.codebase, n)))
  IN [k \in 1..Len(kept) |->
        ScannedFile(kept[k], RelativeFilename(cfg.codebase, kept[k]),
                    RelativeFilename(cfg.codebase, kept[k]))]

\* ScannedFile.IsBinaryFile, of a file Contents() has loaded.
IsBinaryFile(f) == ~f.in_unicode

\* ShouldScrubFile without the do_not_scrub_files_re test.
ShouldScrubFileBinaryOnly(cfg, f) == ~IsBinaryFile(f)

\* ScrubberContext.ShouldScrubFile, of a file Contents() has loaded.
ShouldScrubFile(cfg, f) ==
  ~(IsBinaryFile(f) \/ Search(cfg.do_not_scrub_files_re, f.relative_filename))

\* ScrubbersForFile returning no scrubber for a known file name.
ScrubbersForFileSkipKnown(cfg, f) ==
  LET extension == _GetExtension(cfg.extension_map, f.relative_filename)
  IN IF extension \in DOMAIN cfg.extension_to_scrubber_map
       THEN [scrubbers |-> cfg.extension_to_scrubber_map[extension], unscrubbed |-> {}]
       ELSE IF Basename(f.filename) \in cfg.known_filenames
         THEN [scrubbers |-> <<>>, unscrubbed |-> {}]
         ELSE [scrubbers |-> cfg.default_scrubbers, unscrubbed |-> {extension}]

\* ScrubberContext.ScrubbersForFile: the scrubbers returned, and the
\* extensions the call adds to _unscrubbed_file_extensions.
ScrubbersForFile(cfg, f) ==
  LET extension == _GetExtension(cfg.extension_map, f.relative_filename)
  IN IF extension \in DOMAIN cfg.extension_to_scrubber_map
       THEN [scrubbers |-> cfg.extension_to_scrubber_map[extension], unscrubbed |-> {}]
       ELSE [scrubbers |-> cfg.default_scrubbers,
             unscrubbed |-> IF Basename(f.filename) \notin cfg.known_filenames
                              THEN {extension} ELSE {}]

\* whitelist.Whitelist.Allows: some entry matches the error in each of its
\* non-empty fields.
Allows(whitelist, error) ==
  \E e \in whitelist :
    /\ e.filter = "" \/ e.filter = error.filter
    /\ e.trigger = <<>> \/ e.trigger = error.trigger
    /\ e.filename = <<>> \/ e.filename = error.filename

\* AddError without the whitelist test.
AddErrorAlways(cfg, errs, error) == Append(errs, error)

\* AddError with the whitelist test inverted.
AddErrorAllowed(cfg, errs, error) ==
  IF Allows(cfg.whitelist, error) THEN Append(errs, error) ELSE errs

\* ScrubberContext.AddError
AddError(cfg, errs, error) ==
  IF Allows(cfg.whitelist, error) THEN errs ELSE Append(errs, error)

\* scrubber.ScrubFile(file_obj, context) on file i: st holds the files, the
\* errors, the log and the errors submitted.
ScrubFile(scrubber, i, st) ==
  LET f == Contents(st.files[i], disk)
  IN CASE scrubber.kind = "read" -> [st EXCEPT !.files[i] = f]
       [] scrubber.kind = "rewrite" ->
            [st EXCEPT !.files[i] = RewriteContent(f, scrubber.old, scrubber.new)]
       [] scrubber.kind = "write" ->
            [st EXCEPT !.files[i] = WriteContents(f, scrubber.text)]
       [] scrubber.kind = "delete" -> [st EXCEPT !.files[i] = Delete(st.files[i])]
       [] scrubber.kind = "error" ->
            LET error == [filter |-> scrubber.name, trigger |-> f.contents,
                          filename |-> f.relative_filename]
            IN [st EXCEPT !.files[i] = f,
                          !.errors = AddError(Config, @, error),
                          !.submitted = Append(@, error)]

\* One entry of the log: a scrubber was handed these files in this phase;
\* deleted are those of them that were deleted already.
Invocation(phase, name, idxs, fs) ==
  [phase |-> phase, scrubber |-> name, files |-> idxs,
   deleted |-> {idxs[k] : k \in {j \in 1..Len(idxs) : fs[idxs[j]].is_deleted}}]

\* batch_scrubber.BatchScrubFiles(file_objs, context): the scrubber treats the
\* files of the list in order.
RECURSIVE ScrubEach(_, _, _)
ScrubEach(scrubber, idxs, st) ==
  IF idxs = <<>> THEN st
  ELSE ScrubEach(scrubber, Tail(idxs), ScrubFile(scrubber, Head(idxs), st))

BatchScrubFiles(phase, scrubber, idxs, st) ==
  ScrubEach(scrubber, idxs,
            [st EXCEPT !.log = Append(@, Invocation(phase, scrubber.name, idxs, st.files))])

\* _RunBatchScrubbers handing every scrubber all the files to scrub.
FilesByExtensionAll(cfg, fs, to_scrub, ext) ==
  to_scrub


\* _RunBatchScrubbers: the files of files_to_scrub with this extension.
FilesByExtension(cfg, fs, to_scrub, ext) ==
  SelectSeq(to_scrub, LAMBDA i : _GetExtension(cfg.extension_map, fs[i].relative_filename) = ext)

\* _RunBatchScrubbers: the inner loop, over the batch scrubbers of one
\* extension.
RECURSIVE RunBatchScrubbersOf(_, _, _, _)
RunBatchScrubbersOf(phase, batch_scrubbers, idxs, st) ==
  IF batch_scrubbers = <<>> \/ idxs = <<>> THEN st
  ELSE RunBatchScrubbersOf(phase, Tail(batch_scrubbers), idxs,
                           BatchScrubFiles(phase, Head(batch_scrubbers), idxs, st))

\* _RunBatchScrubbers: one iteration of the loop over the map, which
\* iterates in no fixed order.
_RunBatchScrubbers(phase, batch_scrubbers_map) ==
  \E ext \in batch_left :
    LET st == RunBatchScrubbersOf(phase, batch_scrubbers_map[ext],
                                  FilesByExtension(Config, files, files_to_scrub, ext),
                                  [files |-> files, errors |-> errors, log |-> log,
                                   submitted |-> submitted])
    IN /\ files' = st.files
       /\ errors' = st.errors
       /\ log' = st.log
       /\ submitted' = st.submitted
       /\ batch_left' = batch_left \ {ext}

\* main: ScrubberContext(config), whose __init__ calls FindFiles.
NewContext ==
  /\ pc = "find"
  /\ files' = FindFiles(Config)
  /\ pc' = "scan"
  /\ UNCHANGED <<disk, runVars, fileVars, extVars>>

\* files_to_scrub listing the files from the last to the first.
FilesToScrubReversed(cfg, loaded) ==
  SelectSeq([k \in 1..Len(loaded) |-> Len(loaded) + 1 - k],
            LAMBDA k : ShouldScrubFile(cfg, loaded[k]))

\* Scan: the files of self.files to scrub (as indices), in file-list order.
FilesToScrub(cfg, loaded) ==
  SelectSeq([k \in 1..Len(loaded) |-> k], LAMBDA k : ShouldScrubFile(cfg, loaded[k]))

\* Scan: files_to_scrub; ShouldScrubFile loads every file.
ScanBegin ==
  /\ pc = "scan"
  /\ LET loaded == [k \in 1..Len(files) |-> Contents(files[k], disk)]
     IN /\ files' = loaded
        /\ files_to_scrub' = FilesToScrub(Config, loaded)
  /\ batch_left' = DOMAIN Config.extension_to_pre_batch_scrubbers_map
  /\ pc' = "pre"
  /\ UNCHANGED <<disk, config, errors, submitted, unscrubbed_file_extensions, fi, ri, ei,
                 tree, diffs, log, status, subprocesses, fileVars, extVars>>

\* Scan: _RunPreBatchScrubbers
_RunPreBatchScrubbers ==
  /\ pc = "pre"
  /\ _RunBatchScrubbers("pre", Config.extension_to_pre_batch_scrubbers_map)
  /\ UNCHANGED <<pc, disk, config, unscrubbed_file_extensions, files_to_scrub,
                 fi, ri, ei, tree, diffs, status, subprocesses, fileVars, extVars>>

\* Scan: the loop over files_to_scrub begins.
ScanFiles ==
  /\ pc = "pre"
  /\ batch_left = {}
  /\ pc' = "file"
  /\ fi' = 1
  /\ ri' = 0
  /\ UNCHANGED <<disk, files, config, errors, submitted, unscrubbed_file_extensions,
                 files_to_scrub, batch_left, ei, tree, diffs, log, status,
                 subprocesses, fileVars, extVars>>

\* Scan: scrubbers = self.ScrubbersForFile(file_obj)
ScanScrubbersForFile ==
  /\ pc = "file"
  /\ fi <= Len(files_to_scrub)
  /\ ri = 0
  /\ unscrubbed_file_extensions' = unscrubbed_file_extensions \cup
       ScrubbersForFile(Config, files[files_to_scrub[fi]]).unscrubbed
  /\ ri' = 1
  /\ UNCHANGED <<pc, disk, files, config, errors, submitted, files_to_scrub, batch_left,
                 fi, ei, tree, diffs, log, status, subprocesses, fileVars, extVars>>

\* The scrubber loop without the break on a deleted file.
LeaveScrubberLoopAtEnd(f, scrubbers, k) == k > Len(scrubbers)

\* Scan: whether the loop over the scrubbers of a file ends before scrubber k.
LeaveScrubberLoop(f, scrubbers, k) == k > Len(scrubbers) \/ f.is_deleted

\* Scan: scrubber.ScrubFile(file_obj, self)
ScanScrubFile ==
  /\ pc = "file"
  /\ fi <= Len(files_to_scrub)
  /\ ri >= 1
  /\ LET i == files_to_scrub[fi]
         scrubbers == ScrubbersForFile(Config, files[i]).scrubbers
     IN /\ ~LeaveScrubberLoop(files[i], scrubbers, ri)
        /\ LET st == ScrubFile(scrubbers[ri], i,
                       [files |-> files, errors |-> errors, submitted |-> submitted,
                        log |-> Append(log, Invocation("file", scrubbers[ri].name, <<i>>, files))])
           IN /\ files' = st.files
              /\ errors' = st.errors
              /\ log' = st.log
              /\ submitted' = st.submitted
  /\ ri' = ri + 1
  /\ UNCHANGED <<pc, disk, config, unscrubbed_file_extensions, files_to_scrub,
                 batch_left, fi, ei, tree, diffs, status, subprocesses, fileVars, extVars>>

\* Scan: the loop over the scrubbers of a file ends; on to the next file.
ScanNextFile ==
  /\ pc = "file"
  /\ fi <= Len(files_to_scrub)
  /\ ri >= 1
  /\ LET i == files_to_scrub[fi]
     IN LeaveScrubberLoop(files[i], ScrubbersForFile(Config, files[i]).scrubbers, ri)
  /\ fi' = fi + 1
  /\ ri' = 0
  /\ UNCHANGED <<pc, disk, files, config, errors, submitted, unscrubbed_file_extensions,
                 files_to_scrub, batch_left, ei, tree, diffs, log, status,
                 subprocesses, fileVars, extVars>>

\* Scan: the loop over files_to_scrub has ended.
ScanFilesDone ==
  /\ pc = "file"
  /\ fi > Len(files_to_scrub)
  /\ pc' = "post"
  /\ batch_left' = DOMAIN Config.extension_to_post_batch_scrubbers_map
  /\ UNCHANGED <<disk, files, config, errors, submitted, unscrubbed_file_extensions,
                 files_to_scrub, fi, ri, ei, tree, diffs, log, status,
                 subprocesses, fileVars, extVars>>

\* Scan: _RunPostBatchScrubbers
_RunPostBatchScrubbers ==
  /\ pc = "post"
  /\ _RunBatchScrubbers("post", Config.extension_to_post_batch_scrubbers_map)
  /\ UNCHANGED <<pc, disk, config, unscrubbed_file_extensions, files_to_scrub,
                 fi, ri, ei, tree, diffs, status, subprocesses, fileVars, extVars>>

\* main: Scan has returned; context.WriteOutput() begins.
WriteOutputBegin ==
  /\ pc = "post"
  /\ batch_left = {}
  /\ pc' = "emit"
  /\ ei' = 1
  /\ UNCHANGED <<disk, files, config, errors, submitted, unscrubbed_file_extensions,
                 files_to_scrub, batch_left, fi, ri, tree, diffs, log, status,
                 subprocesses, fileVars, extVars>>

-----------------------------------------------------------------------------
(* ScrubberContext.WriteOutput and the end of main. *)

\* Writing a file, and removing one.
Put(dir, name, bytes) == (name :> bytes) @@ dir
Remove(dir, name) == [q \in DOMAIN dir \ {name} |-> dir[q]]

\* Whether WriteOutput raises on this file: WriteToFile calls Contents() and
\* Mode(), which stats the source, and for the original copy reads the source.
WriteOutputRaises(f, d) ==
  (~f.is_deleted \/ f.is_modified) /\ f.filename \notin DOMAIN d

\* The diff of two files, as the contents diff compares.
Diff(original_filename, original_bytes, modified_filename, modified_bytes) ==
  [original_filename |-> original_filename, original |-> original_bytes,
   modified_filename |-> modified_filename, modified |-> modified_bytes]

DevNull == <<"/", "d", "e", "v", "/", "n", "u", "l", "l">>
Dir(name, relative_filename) == <<name>> \o <<"/">> \o relative_filename

\* Step 0 writing a deleted file to the output tree too.
WriteOutputTreeAlways(f, w) ==
  LET g == Contents(f, w.disk)
  IN [w EXCEPT !.file = g,
               !.tree.output = Put(@, f.output_relative_filename,
                                   WriteToFileBytes(f, w.disk, FALSE))]

\* WriteOutput: step 0 of the loop body, the output tree.  The result holds
\* the file, the source tree and the trees under the temp dir.
WriteOutputTree(f, w) ==
  IF f.is_deleted THEN w
  ELSE LET g == Contents(f, w.disk)
       IN [w EXCEPT !.file = g,
                    !.tree.output = Put(@, f.output_relative_filename,
                                        WriteToFileBytes(f, w.disk, FALSE))]

\* WriteOutput: steps 1 to 3, the originals tree, the modified tree and the
\* diff of a modified file.
WriteOriginalModifiedDiff(w) ==
  LET f == w.file
      g == Contents(f, w.disk)
      original_bytes == WriteToFileBytes(f, w.disk, TRUE)
      modified_bytes == WriteToFileBytes(g, w.disk, FALSE)
      h == IF f.is_deleted THEN g ELSE Contents(g, w.disk)
  IN [w EXCEPT
        !.file = h,
        !.tree.originals = Put(@, f.relative_filename, original_bytes),
        !.tree.modified = IF f.is_deleted THEN @
                          ELSE Put(@, f.output_relative_filename, modified_bytes),
        !.diffs = Put(@, f.relative_filename,
                      IF f.is_deleted
                        THEN Diff(Dir("originals", f.relative_filename), original_bytes,
                                  DevNull, <<>>)
                        ELSE Diff(Dir("originals", f.relative_filename), original_bytes,
                                  Dir("modified", f.output_relative_filename),
                                  modified_bytes))]

\* WriteOutput: step 4, the initial source tree of a modified file under
\* --modify: os.remove, or WriteToFile(filename + '.tmp') and os.rename.
WriteSourceTree(w) ==
  LET f == w.file
      tmp_filename == f.filename \o <<".", "t", "m", "p">>
      written == Put(w.disk, tmp_filename, WriteToFileBytes(f, w.disk, FALSE))
  IN IF f.is_deleted
       THEN [w EXCEPT !.disk = Remove(@, f.filename)]
       ELSE [w EXCEPT !.file = Contents(f, w.disk),
                      !.disk = Put(Remove(written, tmp_filename), f.filename,
                                   written[tmp_filename])]

\* The exit codes diff may end with on these files: 0 when they are equal, 1
\* when they differ, 2 when diff met trouble.
DiffReturncodes(d) == {IF d.original = d.modified THEN 0 ELSE 1, 2}

\* WriteOutput: one sub-process run, p.wait() and its p.returncode.
Popen(args, returncode) == [args |-> args, returncode |-> returncode]

\* WriteOutput: the body of the loop over self.files, for one file.
WriteOutputFile(cfg, f, w) ==
  LET w0 == WriteOutputTree(f, [w EXCEPT !.file = f])
      w1 == IF w0.file.is_modified THEN WriteOriginalModifiedDiff(w0) ELSE w0
  IN IF w0.file.is_modified /\ cfg.modify THEN WriteSourceTree(w1) ELSE w1

\* WriteOutput: one iteration of the loop over self.files.
WriteOutput ==
  /\ pc = "emit"
  /\ ei <= Len(files)
  /\ ~WriteOutputRaises(files[ei], disk)
  /\ LET w == WriteOutputFile(Config, files[ei],
                [file |-> files[ei], disk |-> disk, tree |-> tree, diffs |-> diffs])
     IN /\ files' = [files EXCEPT ![ei] = w.file]
        /\ disk' = w.disk
        /\ tree' = w.tree
        /\ diffs' = w.diffs
        /\ IF w.file.is_modified
             THEN LET d == w.diffs[w.file.relative_filename]
                  IN \E returncode \in DiffReturncodes(d) :
                       subprocesses' =
                         Append(subprocesses,
                                Popen(<<"diff", d.original_filename, d.modified_filename>>,
                                      returncode))
             ELSE subprocesses' = subprocesses
  /\ log' = Append(log, Invocation("emit", "WriteOutput", <<ei>>, files))
  /\ ei' = ei + 1
  /\ UNCHANGED <<pc, config, errors, submitted, unscrubbed_file_extensions, files_to_scrub,
                 batch_left, fi, ri, status, fileVars, extVars>>

\* WriteOutput: the source of the file is gone; IOError or OSError ends the
\* run with a traceback.
WriteOutputCrash ==
  /\ pc = "emit"
  /\ ei <= Len(files)
  /\ WriteOutputRaises(files[ei], disk)
  /\ pc' = "crashed"
  /\ UNCHANGED <<disk, files, runVars, fileVars, extVars>>

\* Status returning the number of errors.
StatusCount(errs) == Len(errs)

\* ScrubberContext.Status
Status(errs) == IF errs # <<>> THEN 1 ELSE 0

\* The error WriteOutput adds when tar fails: a str, which has no filter,
\* trigger or file.
TarError ==
  [filter |-> "", trigger |-> <<>>, filename |-> <<>>,
   text |-> "tar finished unsuccessfully"]

\* WriteOutput: step 5, the output tar, whose exit code is returncode; then
\* main returns context.Status().
WriteOutputTar ==
  /\ pc = "emit"
  /\ ei > Len(files)
  /\ IF Config.output_tar
       THEN \E returncode \in {0, 2} :
              /\ subprocesses' = Append(subprocesses, Popen(<<"tar">>, returncode))
              /\ errors' = IF returncode # 0
                             THEN AddError(Config, errors, TarError) ELSE errors
              /\ submitted' = IF returncode # 0
                                THEN Append(submitted, TarError) ELSE submitted
       ELSE UNCHANGED <<subprocesses, errors, submitted>>
  /\ status' = Status(errors')
  /\ pc' = "done"
  /\ UNCHANGED <<disk, files, config, unscrubbed_file_extensions, files_to_scrub,
                 batch_left, fi, ri, ei, tree, diffs, log, fileVars, extVars>>

Next ==
  \/ NewContext
  \/ ScanBegin
  \/ _RunPreBatchScrubbers
  \/ ScanFiles
  \/ ScanScrubbersForFile
  \/ ScanScrubFile
  \/ ScanNextFile
  \/ ScanFilesDone
  \/ _RunPostBatchScrubbers
  \/ WriteOutputBegin
  \/ WriteOutput
  \/ WriteOutputCrash
  \/ WriteOutputTar

Spec == Init /\ [][Next]_vars

-----------------------------------------------------------------------------
(* The claims about a run. *)

\* What the source of file i held when the run started, whether that is
\* binary (not UTF-8), and whether the file is one ShouldScrubFile excludes.
SourceAtStart(i) == SourceTree(config.input_files)[files[i].filename]
BinarySource(i) == ~Utf8Decode(SourceAtStart(i)).ok
Excluded(i) ==
  BinarySource(i) \/ Search(Config.do_not_scrub_files_re, files[i].relative_filename)

\* The names of the scrubbers of one phase that were handed file i, in order.
RECURSIVE InvokedOn(_, _, _)
InvokedOn(phase, i, l) ==
  IF l = <<>> THEN <<>>
  ELSE (IF Head(l).phase = phase /\ \E k \in 1..Len(Head(l).files) : Head(l).files[k] = i
          THEN <<Head(l).scrubber>> ELSE <<>>) \o InvokedOn(phase, i, Tail(l))

Names(scrubbers) == [k \in 1..Len(scrubbers) |-> scrubbers[k].name]

\* C2 as claimed: no scrubber of any kind is handed a file that is deleted.
C2_NoRuleAfterDeleted ==
  \A k \in 1..Len(log) : log[k].phase # "emit" => log[k].deleted = {}

\* C2, amended: no per-file scrubber is invoked on a file after that file's
\* is_deleted flag has become true.
C2_NoPerFileRuleAfterDeleted ==
  \A k \in 1..Len(log) : log[k].phase = "file" => log[k].deleted = {}

\* A file was deleted by a per-file scrubber that is not the last of its
\* list, and Scan has left the file.
C2_Witness ==
  \E k \in 1..(fi - 1) :
    LET i == files_to_scrub[k]
        invoked == InvokedOn("file", i, log)
    IN /\ pc = "post"
       /\ files[i].is_deleted
       /\ invoked # <<>>
       /\ Len(invoked) < Len(ScrubbersForFile(Config, files[i]).scrubbers)

Rank(phase) ==
  CASE phase = "pre" -> 1 [] phase = "file" -> 2 [] phase = "post" -> 3
    [] phase = "emit" -> 4

\* The position of a scrubber in the per-file list of file i.
ScrubberIndex(i, name) ==
  LET scrubbers == ScrubbersForFile(Config, files[i]).scrubbers
  IN CHOOSE r \in 1..Len(scrubbers) : scrubbers[r].name = name

\* C3: the invocations of a run come in the order pre-batch, per-file (file
\* by file in file-list order, each file's scrubbers in list order),
\* post-batch, emitter.
C3_PhaseOrder ==
  \A j, k \in 1..Len(log) :
    j < k =>
      /\ Rank(log[j].phase) <= Rank(log[k].phase)
      /\ (log[j].phase = "file" /\ log[k].phase = "file") =>
           \/ log[j].files[1] < log[k].files[1]
           \/ /\ log[j].files[1] = log[k].files[1]
              /\ ScrubberIndex(log[j].files[1], log[j].scrubber)
                   < ScrubberIndex(log[k].files[1], log[k].scrubber)
      /\ (log[j].phase = "emit" /\ log[k].phase = "emit") =>
           log[j].files[1] < log[k].files[1]

\* A finished run in which all four phases acted, the per-file phase on two
\* files.
C3_Witness ==
  /\ pc = "done"
  /\ \A p \in {"pre", "file", "post", "emit"} : \E k \in 1..Len(log) : log[k].phase = p
  /\ \E j, k \in 1..Len(log) :
       /\ log[j].phase = "file"
       /\ log[k].phase = "file"
       /\ log[j].files[1] # log[k].files[1]

\* C4: a file matching ignore_files_re is not in the file list; a binary
\* file and a file matching do_not_scrub_files_re are in the file list, and
\* no pre-batch, per-file or post-batch scrubber is handed them.
C4_IgnoredAndExcluded ==
  /\ \A i \in 1..Len(files) :
       ~Search(Config.ignore_files_re, files[i].relative_filename)
  /\ pc # "find" =>
       \A n \in 1..Len(Config.input_files) :
         ~Search(Config.ignore_files_re,
                 RelativeFilename(Config.codebase, Config.input_files[n]))
           => \E i \in 1..Len(files) : files[i].filename = Config.input_files[n]
  /\ \A k \in 1..Len(log) :
       log[k].phase # "emit" =>
         \A m \in 1..Len(log[k].files) : ~Excluded(log[k].files[m])

\* A finished run with an excluded file in the file list, in which some
\* scrubber was invoked.
C4_Witness ==
  /\ pc = "done"
  /\ \E i \in 1..Len(files) : Excluded(i)
  /\ \E k \in 1..Len(log) : log[k].phase # "emit"

\* C5: after Scan and WriteOutput, a binary file and a file matching
\* do_not_scrub_files_re have a copy under output/ equal to the input, are
\* neither modified nor deleted, have no error, and have nothing under
\* originals/, modified/ and diffs/.
C5_ExcludedUntouched ==
  pc = "done" =>
    \A i \in 1..Len(files) :
      Excluded(i) =>
        /\ files[i].output_relative_filename \in DOMAIN tree.output
        /\ tree.output[files[i].output_relative_filename] = SourceAtStart(i)
        /\ ~files[i].is_modified
        /\ ~files[i].is_deleted
        /\ \A e \in 1..Len(errors) : errors[e].filename # files[i].relative_filename
        /\ files[i].relative_filename \notin DOMAIN tree.originals
        /\ files[i].output_relative_filename \notin DOMAIN tree.modified
        /\ files[i].relative_filename \notin DOMAIN diffs

\* A finished run with a binary file and a file matching
\* do_not_scrub_files_re.
C5_Witness ==
  /\ pc = "done"
  /\ \E i, j \in 1..Len(files) :
       /\ BinarySource(i)
       /\ ~BinarySource(j)
       /\ Search(Config.do_not_scrub_files_re, files[j].relative_filename)

\* C7: at emit time a modified file's content differs from its original (its
\* diff is not empty), and a diff is written exactly for the modified files.
C7_ModifiedMeansChanged ==
  pc \in {"emit", "done"} =>
    \A i \in 1..Len(files) :
      i < ei =>
        /\ files[i].relative_filename \in DOMAIN diffs <=> files[i].is_modified
        /\ files[i].relative_filename \in DOMAIN diffs =>
             diffs[files[i].relative_filename].original
               # diffs[files[i].relative_filename].modified

\* C8: the original copy of a modified file equals its source at the start of
\* the run, and is written before the source path is overwritten or unlinked.
C8_OriginalsKeepSource ==
  \A i \in 1..Len(files) :
    files[i].is_modified =>
      /\ files[i].relative_filename \in DOMAIN tree.originals =>
           tree.originals[files[i].relative_filename] = SourceAtStart(i)
      /\ (files[i].filename \notin DOMAIN disk \/ disk[files[i].filename] # SourceAtStart(i))
           => files[i].relative_filename \in DOMAIN tree.originals

\* The files of files_to_scrub whose extension is not in the per-file table:
\* those for which Scan has called ScrubbersForFile, and those Scan has left.
MissedIn(k) ==
  _GetExtension(Config.extension_map, files[files_to_scrub[k]].relative_filename)
    \notin DOMAIN Config.extension_to_scrubber_map
Entered(k) == (k < fi \/ (k = fi /\ ri >= 1)) /\ MissedIn(k)
Missed(k) == k < fi /\ MissedIn(k)
KnownName(k) == Basename(files[files_to_scrub[k]].filename) \in Config.known_filenames

\* C10 as claimed: on a miss, a file with a known name gets no per-file
\* scrubber and nothing is recorded; any other file gets the default list and
\* its extension is recorded.
C10_KnownFilenameSkipped ==
  \A k \in 1..Len(files_to_scrub) :
    Missed(k) =>
      LET i == files_to_scrub[k]
          extension == _GetExtension(Config.extension_map, files[i].relative_filename)
      IN IF KnownName(k)
           THEN InvokedOn("file", i, log) = <<>>
           ELSE /\ InvokedOn("file", i, log) = Names(Config.default_scrubbers)
                /\ extension \in unscrubbed_file_extensions

\* C10, amended: on a miss the default list is run on the file, known name or
\* not (up to a scrubber that deletes it); the extension is recorded for a
\* file whose name is not known, and only for such a file.
C10_DefaultOnMiss ==
  /\ \A k \in 1..Len(files_to_scrub) :
       Missed(k) =>
         LET i == files_to_scrub[k]
             invoked == InvokedOn("file", i, log)
             default == Names(Config.default_scrubbers)
         IN /\ \/ invoked = default
               \/ /\ files[i].is_deleted
                  /\ Len(invoked) < Len(default)
                  /\ invoked = SubSeq(default, 1, Len(invoked))
            /\ ~KnownName(k) =>
                 _GetExtension(Config.extension_map, files[i].relative_filename)
                   \in unscrubbed_file_extensions
  /\ unscrubbed_file_extensions =
       { _GetExtension(Config.extension_map, files[files_to_scrub[k]].relative_filename) :
           k \in {j \in 1..Len(files_to_scrub) : Entered(j) /\ ~KnownName(j)} }

\* Scan has left two files that missed the table, one with a known name, on
\* which the default scrubbers ran, and one without.
C10_Witness ==
  \E j, k \in 1..Len(files_to_scrub) :
    /\ Missed(j)
    /\ KnownName(j)
    /\ InvokedOn("file", files_to_scrub[j], log) # <<>>
    /\ unscrubbed_file_extensions # {}
    /\ Missed(k)
    /\ ~KnownName(k)

\* C13: the exit status of a completed run is 1 when some error handed to
\* AddError, by a scrubber or for a failed tar, was not allowed by the
\* whitelist, and 0 otherwise, whatever was modified, deleted or not known.
C13_StatusReflectsErrors ==
  pc = "done" =>
    /\ status \in {0, 1}
    /\ status = 1 <=>
         \E k \in 1..Len(submitted) : ~Allows(Config.whitelist, submitted[k])

\* A completed run with status 0 although a file was modified, a file was
\* deleted, an extension was not known and a whitelisted error was handed in.
C13_Witness ==
  /\ pc = "done"
  /\ status = 0
  /\ submitted # <<>>
  /\ unscrubbed_file_extensions # {}
  /\ \E i, j \in 1..Len(files) :
       /\ files[i].is_deleted
       /\ files[j].is_modified /\ ~files[j].is_deleted

\* The files WriteOutput has treated that are deleted.
EmittedDeleted == {i \in 1..Len(files) : i < ei /\ files[i].is_deleted}

\* C14 as claimed: for a deleted file nothing is written under output/ or
\* modified/, and diff is run with /dev/null as its original and as its
\* modified argument.
C14_DeletedDevNullBothSides ==
  pc \in {"emit", "done"} =>
    \A i \in EmittedDeleted :
      /\ files[i].output_relative_filename \notin DOMAIN tree.output
      /\ files[i].output_relative_filename \notin DOMAIN tree.modified
      /\ files[i].relative_filename \in DOMAIN diffs
      /\ diffs[files[i].relative_filename].original_filename = DevNull
      /\ diffs[files[i].relative_filename].modified_filename = DevNull

\* C14, amended: for a deleted file nothing is written under output/ or
\* modified/, and diff is run with the copy under originals/, which holds
\* the source, as its original argument and /dev/null as its modified one.
C14_DeletedDevNullModifiedSide ==
  pc \in {"emit", "done"} =>
    \A i \in EmittedDeleted :
      /\ files[i].output_relative_filename \notin DOMAIN tree.output
      /\ files[i].output_relative_filename \notin DOMAIN tree.modified
      /\ files[i].relative_filename \in DOMAIN diffs
      /\ diffs[files[i].relative_filename].original_filename
           = Dir("originals", files[i].relative_filename)
      /\ diffs[files[i].relative_filename].original
           = tree.originals[files[i].relative_filename]
      /\ diffs[files[i].relative_filename].modified_filename = DevNull
      /\ \E k \in 1..Len(subprocesses) :
           subprocesses[k].args
             = <<"diff", Dir("originals", files[i].relative_filename), DevNull>>

\* WriteOutput has treated a deleted file and a file that is not deleted.
C14_Witness ==
  /\ pc = "done"
  /\ EmittedDeleted # {}
  /\ \E j \in 1..Len(files) : ~files[j].is_deleted /\ files[j].is_modified

\* The runs of diff and tar that failed: diff ends with 2 on trouble (1 only
\* says the files differ), tar with any code but 0.
Failed(p) ==
  IF p.args[1] = "diff" THEN p.returncode >= 2 ELSE p.returncode # 0

\* C15: when diff or tar fails in WriteOutput an error is handed to AddError
\* for it, for diff as for tar: as many errors of WriteOutput's own (strs)
\* were handed in as sub-processes failed.
C15_SubprocessFailureRecorded ==
  Cardinality({k \in 1..Len(subprocesses) : Failed(subprocesses[k])})
    <= Cardinality({k \in 1..Len(submitted) : "text" \in DOMAIN submitted[k]})

\* C18: WriteOutput touches a source path only under --modify and for a
\* modified file: a deleted file's source is unlinked, any other modified
\* file's source holds the new content, written to <path>.tmp and renamed;
\* every other source, and every source without --modify, is as it was.
C18_SourceTouchedOnlyWhenModified ==
  pc \in {"emit", "done", "crashed"} =>
    /\ \A i \in 1..Len(files) :
         LET f == files[i]
         IN IF i < ei /\ Config.modify /\ f.is_modified
              THEN IF f.is_deleted
                     THEN f.filename \notin DOMAIN disk
                     ELSE /\ f.filename \in DOMAIN disk
                          /\ disk[f.filename] = _PossiblyEncode(f.contents, f.in_unicode)
                          /\ f.filename \o <<".", "t", "m", "p">> \notin DOMAIN disk
              ELSE /\ f.filename \in DOMAIN disk
                   /\ disk[f.filename] = SourceAtStart(i)
    /\ \A q \in DOMAIN SourceTree(config.input_files) :
         (\A i \in 1..Len(files) : files[i].filename # q) =>
           (q \in DOMAIN disk /\ disk[q] = SourceTree(config.input_files)[q])

\* The batch map of a phase, and the extensions a batch scrubber is
\* registered under in it.
BatchMap(phase) ==
  IF phase = "pre" THEN Config.extension_to_pre_batch_scrubbers_map
  ELSE Config.extension_to_post_batch_scrubbers_map

RegisteredUnder(phase, name) ==
  {ext \in DOMAIN BatchMap(phase) :
     \E k \in 1..Len(BatchMap(phase)[ext]) : BatchMap(phase)[ext][k].name = name}

\* The files of the file list (as indices, in order) that are to be scrubbed
\* and resolve to an extension.
ScrubbedWithExtension(ext) ==
  SelectSeq([i \in 1..Len(files) |-> i],
            LAMBDA i : /\ ~Excluded(i)
                       /\ _GetExtension(Config.extension_map,
                                        files[i].relative_filename) = ext)

\* C25: every batch-rule invocation receives exactly the files to scrub
\* (non-binary, not matching do_not_scrub_files_re) whose resolved extension
\* is the one the rule is registered under, in file-list order, and there is
\* at least one such file.
C25_BatchFilesOfExtension ==
  \A k \in 1..Len(log) :
    log[k].phase \in {"pre", "post"} =>
      \E ext \in RegisteredUnder(log[k].phase, log[k].scrubber) :
        /\ log[k].files = ScrubbedWithExtension(ext)
        /\ log[k].files # <<>>

\* C25 witness: a batch scrubber was handed one file of a list of two, the
\* other being a file to scrub of another extension.
C25_Witness ==
  /\ \E k \in 1..Len(log) :
       /\ log[k].phase \in {"pre", "post"}
       /\ Len(log[k].files) = 1
       /\ Len(files) = 2
       /\ \E i \in 1..Len(files) :
            /\ ~Excluded(i)
            /\ \A m \in 1..Len(log[k].files) : log[k].files[m] # i


-----------------------------------------------------------------------------
(* SpecErr: up to MaxErrors calls of AddError on a context whose config    *)
(* holds some whitelist.                                                   *)

\* The entries a whitelist may hold: (filter, trigger, filename), an empty
\* field standing for any value.
WhitelistEntries ==
  { [filter |-> "f", trigger |-> <<>>, filename |-> <<>>],
    [filter |-> "", trigger |-> <<97>>, filename |-> <<>>],
    [filter |-> "", trigger |-> <<>>, filename |-> <<"a", ".", "c">>],
    [filter |-> "f", trigger |-> <<97>>, filename |-> <<"a", ".", "c">>],
    [filter |-> "", trigger |-> <<>>, filename |-> <<>>] }

\* The errors the scrubbers and WriteOutput may hand to AddError.
Errors ==
  { [filter |-> "f", trigger |-> <<97>>, filename |-> <<"a", ".", "c">>],
    [filter |-> "f", trigger |-> <<98>>, filename |-> <<"b", ".", "c">>],
    [filter |-> "g", trigger |-> <<97>>, filename |-> <<"b", ".", "c">>],
    [filter |-> "g", trigger |-> <<98>>, filename |-> <<"a", ".", "c">>],
    TarError }

InitErr ==
  /\ pc = "err"
  /\ config \in [whitelist : SUBSET WhitelistEntries]
  /\ errors = <<>>
  /\ submitted = <<>>
  /\ disk = <<>>
  /\ files = <<>>
  /\ unscrubbed_file_extensions = {}
  /\ files_to_scrub = <<>>
  /\ batch_left = {}
  /\ fi = 0
  /\ ri = 0
  /\ ei = 0
  /\ tree = <<>>
  /\ diffs = <<>>
  /\ log = <<>>
  /\ subprocesses = <<>>
  /\ status = -1
  /\ IdleFile
  /\ IdleExt

\* context.AddError(error)
CallAddError ==
  /\ pc = "err"
  /\ Len(submitted) < MaxErrors
  /\ \E error \in Errors :
       /\ errors' = AddError(config, errors, error)
       /\ submitted' = Append(submitted, error)
  /\ UNCHANGED <<pc, disk, files, config, unscrubbed_file_extensions, files_to_scrub,
                 batch_left, fi, ri, ei, tree, diffs, log, subprocesses, status,
                 fileVars, extVars>>

NextErr == CallAddError

SpecErr == InitErr /\ [][NextErr]_vars

\* C11: the errors held are the errors handed to AddError that the whitelist
\* does not allow, in the order they were handed in; and a call of AddError
\* only ever appends: no error held is removed or moved.
C11_ErrorsAppendOnlyFiltered ==
  /\ [](pc = "err" =>
          errors = SelectSeq(submitted, LAMBDA e : ~Allows(config.whitelist, e)))
  /\ [][/\ Len(errors') >= Len(errors)
         /\ SubSeq(errors', 1, Len(errors)) = errors]_vars

\* Three calls of which the first and the last were stored, two different
\* errors, and the one between was dropped for the whitelist.
C11_Witness ==
  /\ pc = "err"
  /\ Len(submitted) = 3
  /\ Len(errors) = 2
  /\ errors[1] # errors[2]
  /\ Allows(config.whitelist, submitted[2])

\* The errors a context with this whitelist holds after these calls of
\* AddError.
RECURSIVE AddErrors(_, _)
AddErrors(whitelist, errs) ==
  IF errs = <<>> THEN <<>>
  ELSE AddError([whitelist |-> whitelist],
                AddErrors(whitelist, SubSeq(errs, 1, Len(errs) - 1)),
                errs[Len(errs)])

\* C12: with one more entry in the whitelist, the same calls of AddError
\* never leave more errors than are held now.
C12_WhitelistMonotone ==
  pc = "err" =>
    \A entry \in WhitelistEntries :
      Len(AddErrors(config.whitelist \cup {entry}, submitted)) <= Len(errors)

\* Errors are held of which an entry the whitelist lacks would drop some but
\* not all.
C12_Witness ==
  /\ pc = "err"
  /\ \E entry \in WhitelistEntries \ config.whitelist :
       LET fewer == Len(AddErrors(config.whitelist \cup {entry}, submitted))
       IN fewer > 0 /\ fewer < Len(errors)

-----------------------------------------------------------------------------
(* SpecMode: Mode() of a regular file with any permission bits.            *)

\* st_mode of a regular file: the file type and the nine permission bits.
StModes == {S_IFREG + m : m \in 0..511}

InitMode ==
  /\ pc = "mode"
  /\ ext_in \in [st_mode : StModes]
  /\ ext_out = <<>>
  /\ disk = <<>>
  /\ files = <<>>
  /\ IdleRun
  /\ IdleFile

\* file_obj.Mode()
CallMode ==
  /\ pc = "mode"
  /\ ext_out' = Mode(ext_in.st_mode)
  /\ pc' = "mode_done"
  /\ UNCHANGED <<ext_in, disk, files, runVars, fileVars>>

NextMode == CallMode

SpecMode == InitMode /\ [][NextMode]_vars

\* C16: Mode() is 0777 when the source has an execute bit set, for user,
\* group or other, and 0666 when it has none.
C16_ModeMirrorsExecute ==
  pc = "mode_done" =>
    ext_out = IF BitAnd(ext_in.st_mode, 73) # 0 THEN 511 ELSE 438

-----------------------------------------------------------------------------
(* SpecTr: the translators (src/moe/translators/translators.py):           *)
(* TranslateToProjectSpace and Translate on a codebase and up to           *)
(* MaxTranslators translators.                                             *)

\* codebase_utils.Codebase(path, additional_files_re, project_space), as its
\* callers use it; obj tells one Codebase object from another: 0 is the
\* codebase handed in, 1 one that Translate has made.
codebase_utils_Codebase(obj, path, additional_files_re, project_space) ==
  [obj |-> obj, path |-> path, additional_files_re |-> additional_files_re,
   project_space |-> project_space]

\* Codebase.ExpandedPath(): the directory itself, or the directory a tar file
\* was expanded into.
ExpandedPath(codebase) ==
  IF codebase.path = "c.tar" THEN "c.tar.expanded" ELSE codebase.path

ProjectSpaces == {"foo", "bar", "baz"}

\* What a call returns or raises; input is the codebase handed in, as the
\* call leaves it, and calls lists the translators whose Translate ran.
Returned(codebase, input) ==
  [raised |-> "", codebase |-> codebase, input |-> input, calls |-> <<>>]
Raised(exception, input) ==
  [raised |-> exception, codebase |-> <<>>, input |-> input, calls |-> <<>>]

\* IdentityTranslator.Translate dropping additional_files_re.
IdentityTranslateForgetful(t, codebase) ==
  IF codebase.project_space # t.from
    THEN Raised("base.Error", codebase)
    ELSE Returned(codebase_utils_Codebase(1, ExpandedPath(codebase), "", t.to), codebase)

\* IdentityTranslator.Translate
IdentityTranslate(t, codebase) ==
  IF codebase.project_space # t.from
    THEN Raised("base.Error", codebase)
    ELSE Returned(codebase_utils_Codebase(1, ExpandedPath(codebase), codebase.additional_files_re, t.to),
                  codebase)

\* ScrubberInvokingTranslator.Translate
ScrubberInvokingTranslate(t, codebase) == Raised("NotImplementedError", codebase)

\* MockTranslator.Translate of translators_test.py
MockTranslate(t, codebase) ==
  Returned(codebase_utils_Codebase(1, "codebases/modified_python/", "", "bar"), codebase)

\* t.Translate(codebase)
Translate(t, codebase) ==
  CASE t.kind = "identity" -> IdentityTranslate(t, codebase)
    [] t.kind = "scrubber" -> ScrubberInvokingTranslate(t, codebase)
    [] t.kind = "mock" -> MockTranslate(t, codebase)

\* TranslateToProjectSpace: the loop over translators, from the k-th on.
RECURSIVE TranslateLoop(_, _, _, _)
TranslateLoop(codebase, to_project_space, translators, k) ==
  IF k > Len(translators)
    THEN Raised("base.Error", codebase)
    ELSE IF translators[k].from = codebase.project_space
              /\ translators[k].to = to_project_space
      THEN [Translate(translators[k], codebase) EXCEPT !.calls = <<k>>]
      ELSE TranslateLoop(codebase, to_project_space, translators, k + 1)

\* TranslateToProjectSpace without the test for a codebase that is in the
\* project space already.
TranslateToProjectSpaceAlways(codebase, to_project_space, translators) ==
  TranslateLoop(codebase, to_project_space, translators, 1)

\* translators.TranslateToProjectSpace
TranslateToProjectSpace(codebase, to_project_space, translators) ==
  IF codebase.project_space = to_project_space
    THEN Returned(codebase, codebase)
    ELSE TranslateLoop(codebase, to_project_space, translators, 1)

\* The translators of a run, and the sequences of up to n of them.
Translators ==
  { [kind |-> "identity", from |-> "foo", to |-> "bar"],
    [kind |-> "identity", from |-> "bar", to |-> "foo"],
    [kind |-> "identity", from |-> "foo", to |-> "baz"],
    [kind |-> "scrubber", from |-> "foo", to |-> "bar"],
    [kind |-> "mock", from |-> "foo", to |-> "bar"] }

RECURSIVE TranslatorLists(_)
TranslatorLists(n) ==
  IF n = 0 THEN {<<>>}
  ELSE LET shorter == TranslatorLists(n - 1)
       IN shorter \cup {Append(l, t) : l \in {x \in shorter : Len(x) = n - 1},
                                       t \in Translators}

Codebases ==
  { codebase_utils_Codebase(0, path, additional_files_re, project_space) :
      path \in {"input/", "c.tar"}, additional_files_re \in {"", "bar"},
      project_space \in ProjectSpaces }

InitTr ==
  /\ pc = "translate"
  /\ ext_in \in [codebase : Codebases, to_project_space : ProjectSpaces,
                  translators : TranslatorLists(MaxTranslators)]
  /\ ext_out = <<>>
  /\ disk = <<>>
  /\ files = <<>>
  /\ IdleRun
  /\ IdleFile

\* translators.TranslateToProjectSpace(codebase, to_project_space, translators)
CallTranslateToProjectSpace ==
  /\ pc = "translate"
  /\ ext_out' = [op |-> "TranslateToProjectSpace", k |-> 0,
                 result |-> TranslateToProjectSpace(ext_in.codebase,
                                                    ext_in.to_project_space,
                                                    ext_in.translators)]
  /\ pc' = "translated"
  /\ UNCHANGED <<ext_in, disk, files, runVars, fileVars>>

\* translators[k].Translate(codebase)
CallTranslate ==
  /\ pc = "translate"
  /\ \E k \in 1..Len(ext_in.translators) :
       ext_out' = [op |-> "Translate", k |-> k,
                   result |-> Translate(ext_in.translators[k], ext_in.codebase)]
  /\ pc' = "translated"
  /\ UNCHANGED <<ext_in, disk, files, runVars, fileVars>>

NextTr ==
  \/ CallTranslateToProjectSpace
  \/ CallTranslate

SpecTr == InitTr /\ [][NextTr]_vars

\* The translators of the call that translate from the codebase's project
\* space to the target.
Matching ==
  {k \in 1..Len(ext_in.translators) :
     /\ ext_in.translators[k].from = ext_in.codebase.project_space
     /\ ext_in.translators[k].to = ext_in.to_project_space}

\* C19: TranslateToProjectSpace returns the codebase it was handed, calling
\* no translator, when that is in the target project space; otherwise it
\* calls Translate once, of the first translator from the codebase's space
\* to the target, and returns what that returns; without such a translator
\* it raises base.Error.
C19_TranslateToProjectSpace ==
  (pc = "translated" /\ ext_out.op = "TranslateToProjectSpace") =>
    LET r == ext_out.result
    IN IF ext_in.codebase.project_space = ext_in.to_project_space
         THEN r.raised = "" /\ r.codebase = ext_in.codebase /\ r.calls = <<>>
         ELSE IF Matching = {}
           THEN r.raised = "base.Error" /\ r.calls = <<>>
           ELSE LET first == CHOOSE k \in Matching : \A j \in Matching : k <= j
                    t == Translate(ext_in.translators[first], ext_in.codebase)
                IN /\ r.calls = <<first>>
                   /\ r.raised = t.raised
                   /\ r.codebase = t.codebase

\* Two translators of different classes both go from the codebase's space
\* to the target; the first was called and has returned a codebase.
C19_Witness ==
  /\ pc = "translated"
  /\ ext_out.op = "TranslateToProjectSpace"
  /\ Cardinality(Matching) = 2
  /\ ext_in.translators[1].kind # ext_in.translators[2].kind
  /\ ext_out.result.calls = <<1>>
  /\ ext_out.result.raised = ""

\* C20: IdentityTranslator.Translate raises base.Error for a codebase that
\* is not in the translator's from-space; otherwise it returns a codebase
\* made of the input's expanded path and additional_files_re, in the
\* translator's to-space, and the input codebase is as it was.
C20_IdentityTranslate ==
  (pc = "translated" /\ ext_out.op = "Translate"
     /\ ext_in.translators[ext_out.k].kind = "identity") =>
    LET r == ext_out.result
        t == ext_in.translators[ext_out.k]
    IN /\ r.input = ext_in.codebase
       /\ IF ext_in.codebase.project_space # t.from
            THEN r.raised = "base.Error"
            ELSE /\ r.raised = ""
                 /\ r.codebase.path = ExpandedPath(ext_in.codebase)
                 /\ ExpandedPath(r.codebase) = ExpandedPath(ext_in.codebase)
                 /\ r.codebase.additional_files_re = ext_in.codebase.additional_files_re
                 /\ r.codebase.project_space = t.to

\* An identity translator has translated a tar codebase that has an
\* additional_files_re.
C20_Witness ==
  /\ pc = "translated"
  /\ ext_out.op = "Translate"
  /\ ext_in.translators[ext_out.k].kind = "identity"
  /\ ext_out.result.raised = ""
  /\ ext_in.codebase.path = "c.tar"
  /\ ext_in.codebase.additional_files_re = "bar"

-----------------------------------------------------------------------------
(* SpecCfg: the rule tables ScrubberConfigFromJson builds from a JSON config *)

\* the number of keys of the JSON config
MaxKeys == 2

\* a rule object: its class, the rules it wraps and its constructor arguments
New(class, scrubbers, args) ==
  [class |-> class, scrubbers |-> scrubbers, args |-> args]

\* ScrubberConfig.__init__: the option attributes and their defaults
\* (python_shebang_replace holds no object, <<>>, or one object, <<o>>)
DefaultOptions ==
  [sensitive_words |-> <<>>,
   sensitive_res |-> <<>>,
   scrub_sensitive_comments |-> TRUE,
   string_replacements |-> <<>>,
   regex_replacements |-> <<>>,
   scrubbable_usernames |-> None,
   publishable_usernames |-> None,
   usernames_file |-> None,
   scrub_unknown_users |-> FALSE,
   scrub_authors |-> TRUE,
   scrub_proto_comments |-> FALSE,
   scrub_non_documentation_comments |-> FALSE,
   scrub_all_comments |-> FALSE,
   c_includes_config_file |-> None,
   scrub_java_testsize_annotations |-> FALSE,
   maximum_blank_lines |-> 0,
   empty_java_file_action |-> "ACTION_IGNORE",
   java_renames |-> <<>>,
   js_directory_renames |-> <<>>,
   python_module_renames |-> <<>>,
   python_module_removes |-> <<>>,
   python_shebang_replace |-> <<>>,
   scrub_gwt_inherits |-> <<>>,
   username_filter |-> None]

_SensitiveStringScrubbers(self) ==
  << New("SensitiveWordScrubber", <<>>, self.sensitive_words),
     New("SensitiveReScrubber", <<>>, self.sensitive_res) >>

_PolyglotFileScrubbers(self) ==
  (IF self.string_replacements # <<>>
     THEN << New("ReplacerScrubber", <<>>, self.string_replacements) >>
     ELSE <<>>)
  \o (IF self.regex_replacements # <<>>
        THEN << New("RegexReplacerScrubber", <<>>, self.regex_replacements) >>
        ELSE <<>>)
  \o _SensitiveStringScrubbers(self)

_CommentScrubbersBoth(self) ==
  (IF self.scrub_all_comments
     THEN << New("AllCommentScrubber", <<>>, <<>>) >>
     ELSE <<>>)
  \o (IF self.scrub_non_documentation_comments
        THEN << New("AllNonDocumentationCommentScrubber", <<>>, <<>>) >>
        ELSE <<>>)
  \o << New("TodoScrubber", <<>>, self.username_filter) >>
  \o (IF self.scrub_authors
        THEN << New("AuthorDeclarationScrubber", <<>>, self.username_filter) >>
        ELSE <<>>)
  \o (IF self.scrub_sensitive_comments
        THEN [i \in 1..Len(_SensitiveStringScrubbers(self)) |->
                New("SensitiveStringCommentScrubber",
                    << _SensitiveStringScrubbers(self)[i] >>, <<>>)]
        ELSE <<>>)


_CommentScrubbers(self) ==
  (IF self.scrub_all_comments
     THEN << New("AllCommentScrubber", <<>>, <<>>) >>
     ELSE IF self.scrub_non_documentation_comments
       THEN << New("AllNonDocumentationCommentScrubber", <<>>, <<>>) >>
       ELSE <<>>)
  \o << New("TodoScrubber", <<>>, self.username_filter) >>
  \o (IF self.scrub_authors
        THEN << New("AuthorDeclarationScrubber", <<>>, self.username_filter) >>
        ELSE <<>>)
  \o (IF self.scrub_sensitive_comments
        THEN [i \in 1..Len(_SensitiveStringScrubbers(self)) |->
                New("SensitiveStringCommentScrubber",
                    << _SensitiveStringScrubbers(self)[i] >>, <<>>)]
        ELSE <<>>)

_PolyglotLineOrientedScrubbers(self) == <<>>

_MakeGwtXmlScrubbers(self) ==
  IF self.scrub_gwt_inherits # <<>>
    THEN << New("GwtXmlScrubber", <<>>, self.scrub_gwt_inherits) >>
    ELSE <<>>

_MakeHtmlScrubbers(self) ==
  << New("CommentScrubber", _CommentScrubbers(self), "HtmlCommentExtractor") >>
  \o << New("LineScrubber",
            _PolyglotLineOrientedScrubbers(self) \o self.js_directory_renames,
            <<>>) >>
  \o _PolyglotFileScrubbers(self)

_MakeJavaScrubbersTestSize(self) ==
  << New("LineScrubber", _PolyglotLineOrientedScrubbers(self), <<>>) >>
  \o self.java_renames
  \o << New("TestSizeAnnotationScrubber", <<>>, <<>>) >>
  \o << New("UnusedImportStrippingScrubber", <<>>, <<>>) >>
  \o (IF self.maximum_blank_lines # 0
        THEN << New("CoalesceBlankLinesScrubber", <<>>,
                    self.maximum_blank_lines) >>
        ELSE <<>>)
  \o _PolyglotFileScrubbers(self)


_MakeJavaScrubbers(self) ==
  << New("LineScrubber", _PolyglotLineOrientedScrubbers(self), <<>>) >>
  \o self.java_renames
  \o (IF self.scrub_java_testsize_annotations
        THEN << New("TestSizeAnnotationScrubber", <<>>, <<>>) >>
        ELSE <<>>)
  \o << New("UnusedImportStrippingScrubber", <<>>, <<>>) >>
  \o (IF self.maximum_blank_lines # 0
        THEN << New("CoalesceBlankLinesScrubber", <<>>,
                    self.maximum_blank_lines) >>
        ELSE <<>>)
  \o _PolyglotFileScrubbers(self)

_MakeJsScrubbersPolyglotFirst(self) ==
  _PolyglotFileScrubbers(self)
  \o << New("LineScrubber",
            _PolyglotLineOrientedScrubbers(self) \o self.js_directory_renames,
            <<>>) >>


_MakeJsScrubbers(self) ==
  << New("LineScrubber",
         _PolyglotLineOrientedScrubbers(self) \o self.js_directory_renames,
         <<>>) >>
  \o _PolyglotFileScrubbers(self)

_MakePhpScrubbers(self) ==
  << New("LineScrubber", _PolyglotLineOrientedScrubbers(self), <<>>) >>
  \o _PolyglotFileScrubbers(self)

_MakePythonScrubbers(self) ==
  LET line_scrubbers ==
        self.python_module_renames
        \o self.python_module_removes
        \o (IF self.scrub_authors
              THEN << New("PythonAuthorDeclarationScrubber", <<>>,
                          self.username_filter) >>
              ELSE <<>>)
        \o _PolyglotLineOrientedScrubbers(self)
  IN << New("CommentScrubber", _CommentScrubbers(self),
            "PythonCommentExtractor") >>
     \o (IF self.python_shebang_replace # <<>>
           THEN self.python_shebang_replace
           ELSE <<>>)
     \o << New("LineScrubber", line_scrubbers, <<>>) >>
     \o _PolyglotFileScrubbers(self)

_MakeProtoScrubbers(self) ==
  << New("LineScrubber", _PolyglotLineOrientedScrubbers(self), <<>>) >>
  \o _PolyglotFileScrubbers(self)

_MakeShellScrubbers(self) ==
  << New("CommentScrubber", _CommentScrubbers(self),
         "ShellLikeCommentExtractor") >>
  \o _PolyglotFileScrubbers(self)

\* the extensions of the table ResetScrubbers builds, by the list they share
GoAndCExtensions == {".go", ".h", ".c", ".cc", ".l", ".swig"}
ShellExtensions == {".hgignore", ".gitignore", ".yaml", ".sh"}
JavaExtensions == {".java", ".jj"}
JsExtensions == {".js", ".jslib"}
PhpExtensions == {".php", ".php4", ".php5"}
ProtoExtensions == {".proto", ".protodevel"}

_ResetBatchScrubbers(self) ==
  LET c_like_comment_pre_batch_scrubbers ==
        << New("CommentScrubber", _CommentScrubbers(self),
               "CLikeCommentExtractor") >>
      java_pre_batch_scrubbers == c_like_comment_pre_batch_scrubbers
      proto_pre_batch_scrubbers ==
        IF self.scrub_proto_comments
          THEN c_like_comment_pre_batch_scrubbers
          ELSE <<>>
      java_post_batch_scrubbers ==
        IF self.empty_java_file_action # "ACTION_IGNORE"
          THEN << New("EmptyJavaFileScrubber", <<>>,
                      self.empty_java_file_action) >>
          ELSE <<>>
  IN [extension_to_pre_batch_scrubbers_map |->
        [ext \in GoAndCExtensions \cup JavaExtensions \cup JsExtensions
                   \cup PhpExtensions \cup ProtoExtensions |->
           IF ext \in JavaExtensions THEN java_pre_batch_scrubbers
           ELSE IF ext \in ProtoExtensions THEN proto_pre_batch_scrubbers
           ELSE c_like_comment_pre_batch_scrubbers],
      extension_to_post_batch_scrubbers_map |->
        [ext \in JavaExtensions |-> java_post_batch_scrubbers]]

\* config.ResetScrubbers(None, None): the config with its rule tables
ResetScrubbers(options) ==
  LET self ==
        [options EXCEPT !.username_filter =
           [usernames_file |-> options.usernames_file,
            publishable_usernames |-> options.publishable_usernames,
            scrubbable_usernames |-> options.scrubbable_usernames,
            scrub_unknown_users |-> options.scrub_unknown_users]]
      go_and_c_scrubbers ==
        _PolyglotFileScrubbers(self)
        \o (IF ~Falsy(self.c_includes_config_file)
              THEN << New("IncludeScrubber", <<>>,
                          self.c_includes_config_file) >>
              ELSE <<>>)
  IN [options |-> self,
      extension_to_scrubber_map |->
        [ext \in GoAndCExtensions \cup ShellExtensions \cup {".html"}
                   \cup JavaExtensions \cup JsExtensions \cup PhpExtensions
                   \cup ProtoExtensions \cup {".py"} \cup {".css", ".json"}
                   \cup {".jar", ".gif", ".png", ".jpg"} \cup {".xml"} |->
           IF ext \in GoAndCExtensions THEN go_and_c_scrubbers
           ELSE IF ext \in ShellExtensions THEN _MakeShellScrubbers(self)
           ELSE IF ext = ".html" THEN _MakeHtmlScrubbers(self)
           ELSE IF ext \in JavaExtensions THEN _MakeJavaScrubbers(self)
           ELSE IF ext \in JsExtensions THEN _MakeJsScrubbers(self)
           ELSE IF ext \in PhpExtensions THEN _MakePhpScrubbers(self)
           ELSE IF ext \in ProtoExtensions THEN _MakeProtoScrubbers(self)
           ELSE IF ext = ".py" THEN _MakePythonScrubbers(self)
           ELSE IF ext \in {".css", ".json"} THEN _PolyglotFileScrubbers(self)
           ELSE IF ext \in {".jar", ".gif", ".png", ".jpg"} THEN <<>>
           ELSE _MakeGwtXmlScrubbers(self)],
      extension_to_pre_batch_scrubbers_map |->
        _ResetBatchScrubbers(self).extension_to_pre_batch_scrubbers_map,
      extension_to_post_batch_scrubbers_map |->
        _ResetBatchScrubbers(self).extension_to_post_batch_scrubbers_map,
      default_scrubbers |-> _PolyglotFileScrubbers(self)]

\* the keys of _SCRUBBER_CONFIG_KEYS that decide the rule tables
ConfigKeys ==
  {"sensitive_words", "sensitive_res", "scrub_sensitive_comments",
   "string_replacements", "regex_replacements",
   "scrub_non_documentation_comments", "scrub_all_comments",
   "usernames_to_scrub", "scrub_unknown_users", "scrub_authors",
   "scrub_proto_comments", "c_includes_config_file",
   "empty_java_file_action", "maximum_blank_lines",
   "scrub_java_testsize_annotations", "java_renames",
   "js_directory_rename", "js_directory_renames",
   "python_module_renames", "python_module_removes",
   "python_shebang_replace", "scrub_gwt_inherits"}

\* the two values the model gives a key of the JSON config
JsonValue(key, variant) ==
  IF key \in {"scrub_sensitive_comments", "scrub_non_documentation_comments",
              "scrub_all_comments", "scrub_unknown_users", "scrub_authors",
              "scrub_proto_comments", "scrub_java_testsize_annotations"}
    THEN variant = 1
  ELSE IF key = "empty_java_file_action"
    THEN (IF variant = 1 THEN "DELETE" ELSE "ERROR")
  ELSE IF key = "maximum_blank_lines" THEN variant
  ELSE IF key = "c_includes_config_file" THEN <<1>>
  ELSE IF key \in {"python_shebang_replace", "js_directory_rename"}
    THEN <<"x">>
  ELSE IF variant = 1 THEN << <<"x">> >> ELSE << <<"x">>, <<"y">> >>

\* ScrubberConfigFromJson(codebase, input_files, config_json)
ScrubberConfigFromJson(config_json) ==
  LET options == DefaultOptions
      Has(key) == key \in DOMAIN config_json
      Get(key, default) == IF Has(key) THEN config_json[key] ELSE default
      Each(class, key) ==
        [i \in 1..Len(Get(key, <<>>)) |->
           New(class, <<>>, Get(key, <<>>)[i])]
      action_map == [IGNORE |-> "ACTION_IGNORE", DELETE |-> "ACTION_DELETE",
                     ERROR |-> "ACTION_ERROR"]
  IN ResetScrubbers(
       [options EXCEPT
          !.sensitive_words = Get("sensitive_words", <<>>),
          !.sensitive_res = Get("sensitive_res", @),
          !.scrub_sensitive_comments = Get("scrub_sensitive_comments", @),
          !.string_replacements = Get("string_replacements", @),
          !.regex_replacements = Get("regex_replacements", @),
          !.scrub_non_documentation_comments =
             Get("scrub_non_documentation_comments", @),
          !.scrub_all_comments = Get("scrub_all_comments", @),
          !.scrubbable_usernames = Get("usernames_to_scrub", @),
          !.scrub_unknown_users = Get("scrub_unknown_users", @),
          !.scrub_authors = Get("scrub_authors", @),
          !.scrub_proto_comments = Get("scrub_proto_comments", @),
          !.c_includes_config_file = Get("c_includes_config_file", @),
          !.empty_java_file_action =
             IF Has("empty_java_file_action")
               THEN action_map[config_json["empty_java_file_action"]]
               ELSE @,
          !.maximum_blank_lines = Get("maximum_blank_lines", @),
          !.scrub_java_testsize_annotations =
             Get("scrub_java_testsize_annotations", @),
          !.java_renames = Each("JavaRenameScrubber", "java_renames"),
          !.js_directory_renames =
             (IF Has("js_directory_rename")
                THEN << New("JsDirectoryRename", <<>>,
                            config_json["js_directory_rename"]) >>
                ELSE <<>>)
             \o Each("JsDirectoryRename", "js_directory_renames"),
          !.python_module_renames =
             Each("PythonModuleRename", "python_module_renames"),
          !.python_module_removes =
             Each("PythonModuleRemove", "python_module_removes"),
          !.python_shebang_replace =
             IF Has("python_shebang_replace")
               THEN << New("PythonShebangReplace", <<>>,
                           config_json["python_shebang_replace"]) >>
               ELSE @,
          !.scrub_gwt_inherits = Get("scrub_gwt_inherits", @)])

\* the JSON configs of at most MaxKeys keys
ConfigJsons ==
  UNION {{[key \in keys |-> JsonValue(key, variant[key])] :
             variant \in [keys -> 1..2]} :
           keys \in {K \in SUBSET ConfigKeys : Cardinality(K) <= MaxKeys}}

InitCfg ==
  /\ pc = "config"
  /\ ext_in \in ConfigJsons
  /\ ext_out = <<>>
  /\ disk = <<>>
  /\ files = <<>>
  /\ IdleRun
  /\ IdleFile

\* config = ScrubberConfigFromJson(codebase, input_files, config_json)
CallScrubberConfigFromJson ==
  /\ pc = "config"
  /\ ext_out' = ScrubberConfigFromJson(ext_in)
  /\ pc' = "configured"
  /\ UNCHANGED <<ext_in, disk, files, runVars, fileVars>>

NextCfg == CallScrubberConfigFromJson

SpecCfg == InitCfg /\ [][NextCfg]_vars

RECURSIVE CanChangeContent(_)
\* whether a rule, as the rules are described, can rewrite or delete a file:
\* a comment or line scrubber does when one of the rules it applies does, an
\* author rule when the username filter can call a name scrubbable, a
\* sensitive-in-comment rule when its matcher has a word or pattern; a TODO
\* rule and a matcher over the whole file only report
CanChangeContent(rule) ==
  IF rule.class \in {"CommentScrubber", "LineScrubber"}
    THEN \E i \in DOMAIN rule.scrubbers : CanChangeContent(rule.scrubbers[i])
  ELSE IF rule.class \in {"AuthorDeclarationScrubber",
                          "PythonAuthorDeclarationScrubber"}
    THEN \/ ~Falsy(rule.args.scrubbable_usernames)
         \/ rule.args.scrub_unknown_users
  ELSE IF rule.class = "SensitiveStringCommentScrubber"
    THEN rule.scrubbers[1].args # <<>>
  ELSE IF rule.class = "EmptyJavaFileScrubber"
    THEN rule.args = "ACTION_DELETE"
  ELSE rule.class \notin {"TodoScrubber", "SensitiveWordScrubber",
                          "SensitiveReScrubber"}

\* the rules of a list that can change content
Changing(scrubbers) ==
  {i \in DOMAIN scrubbers : CanChangeContent(scrubbers[i])}

\* the pre-batch, per-file and post-batch lists that apply to an extension
ListsOf(cfg, ext) ==
  << IF ext \in DOMAIN cfg.extension_to_pre_batch_scrubbers_map
       THEN cfg.extension_to_pre_batch_scrubbers_map[ext] ELSE <<>>,
     IF ext \in DOMAIN cfg.extension_to_scrubber_map
       THEN cfg.extension_to_scrubber_map[ext] ELSE cfg.default_scrubbers,
     IF ext \in DOMAIN cfg.extension_to_post_batch_scrubbers_map
       THEN cfg.extension_to_post_batch_scrubbers_map[ext] ELSE <<>> >>

\* the extensions of the tables, and one that is in none of them
TableExtensions ==
  DOMAIN ResetScrubbers(DefaultOptions).extension_to_scrubber_map \cup {".txt"}

EmptyConfig == pc = "configured" /\ DOMAIN ext_in = {}

\* C21 (as stated): with an empty config no list of any extension holds a
\* rule that can change file content.
C21_EmptyConfigIdentity ==
  EmptyConfig =>
    \A ext \in TableExtensions : \A k \in 1..3 :
      Changing(ListsOf(ext_out, ext)[k]) = {}

\* C21 (amended): with an empty config the only rule of any list that can
\* change file content is the unused-import stripper, which the per-file list
\* of .java and .jj always holds.
C21_EmptyConfigIdentityButJava ==
  EmptyConfig =>
    \A ext \in TableExtensions :
      /\ Changing(ListsOf(ext_out, ext)[1]) = {}
      /\ Changing(ListsOf(ext_out, ext)[3]) = {}
      /\ \A i \in Changing(ListsOf(ext_out, ext)[2]) :
           /\ ext \in JavaExtensions
           /\ ListsOf(ext_out, ext)[2][i].class
                = "UnusedImportStrippingScrubber"
      /\ ext \in JavaExtensions => Changing(ListsOf(ext_out, ext)[2]) # {}

\* C21 witness: an empty config was loaded, and its lists hold comment and
\* line scrubbers that have nothing to remove.
C21_Witness ==
  /\ EmptyConfig
  /\ \E i \in DOMAIN ext_out.extension_to_scrubber_map[".py"] :
       ext_out.extension_to_scrubber_map[".py"][i].class = "CommentScrubber"
  /\ ext_out.extension_to_pre_batch_scrubbers_map[".java"] # <<>>

\* the comment scrubbers of every list of a config
CommentScrubbersOf(cfg) ==
  UNION {{ListsOf(cfg, t[1])[t[2]][i] :
            i \in {j \in DOMAIN ListsOf(cfg, t[1])[t[2]] :
                     ListsOf(cfg, t[1])[t[2]][j].class = "CommentScrubber"}} :
           t \in TableExtensions \X (1..3)}

\* the comment rules of a comment scrubber, a sensitive rule named by its
\* matcher
CommentRules(rule) ==
  [i \in DOMAIN rule.scrubbers |->
     IF rule.scrubbers[i].class = "SensitiveStringCommentScrubber"
       THEN rule.scrubbers[i].scrubbers[1].class
       ELSE rule.scrubbers[i].class]

\* the rules of the documented order that a set of rules holds
InOrder(present) ==
  LET Held(name) == name \in present
  IN SelectSeq(<< "AllCommentScrubber", "AllNonDocumentationCommentScrubber",
                  "TodoScrubber", "AuthorDeclarationScrubber",
                  "SensitiveWordScrubber", "SensitiveReScrubber" >>, Held)

\* C24 (as stated): every comment-rule list is, in the documented order, TODO,
\* Author iff scrub_authors, the two sensitive rules iff
\* scrub_sensitive_comments, All-comments iff scrub_all_comments and
\* Non-documentation iff scrub_non_documentation_comments.
C24_CommentRuleList ==
  pc = "configured" =>
    \A rule \in CommentScrubbersOf(ext_out) :
      CommentRules(rule) =
        InOrder({"TodoScrubber"}
          \cup (IF ext_out.options.scrub_authors
                  THEN {"AuthorDeclarationScrubber"} ELSE {})
          \cup (IF ext_out.options.scrub_sensitive_comments
                  THEN {"SensitiveWordScrubber", "SensitiveReScrubber"}
                  ELSE {})
          \cup (IF ext_out.options.scrub_all_comments
                  THEN {"AllCommentScrubber"} ELSE {})
          \cup (IF ext_out.options.scrub_non_documentation_comments
                  THEN {"AllNonDocumentationCommentScrubber"} ELSE {}))

\* C24 (amended): as stated, but Non-documentation is present iff
\* scrub_non_documentation_comments is set and scrub_all_comments is not.
C24_CommentRuleListElif ==
  pc = "configured" =>
    \A rule \in CommentScrubbersOf(ext_out) :
      CommentRules(rule) =
        InOrder({"TodoScrubber"}
          \cup (IF ext_out.options.scrub_authors
                  THEN {"AuthorDeclarationScrubber"} ELSE {})
          \cup (IF ext_out.options.scrub_sensitive_comments
                  THEN {"SensitiveWordScrubber", "SensitiveReScrubber"}
                  ELSE {})
          \cup (IF ext_out.options.scrub_all_comments
                  THEN {"AllCommentScrubber"} ELSE {})
          \cup (IF /\ ext_out.options.scrub_non_documentation_comments
                   /\ ~ext_out.options.scrub_all_comments
                  THEN {"AllNonDocumentationCommentScrubber"} ELSE {}))

\* C24 witness: a config that sets both scrub_all_comments and
\* scrub_non_documentation_comments was loaded and handed its comment rules
\* to comment scrubbers.
C24_Witness ==
  /\ pc = "configured"
  /\ ext_out.options.scrub_all_comments
  /\ ext_out.options.scrub_non_documentation_comments
  /\ CommentScrubbersOf(ext_out) # {}

\* the extensions of programming languages in the per-file table
CodeExtensions ==
  GoAndCExtensions \cup JavaExtensions \cup JsExtensions \cup PhpExtensions
  \cup ProtoExtensions \cup {".py"}

\* the classes of the rules of the per-file list of an extension
Classes(cfg, ext) ==
  [i \in DOMAIN cfg.extension_to_scrubber_map[ext] |->
     cfg.extension_to_scrubber_map[ext][i].class]

PolyglotOrder ==
  << "ReplacerScrubber", "RegexReplacerScrubber", "SensitiveWordScrubber",
     "SensitiveReScrubber" >>

IsPolyglot(class) == \E i \in DOMAIN PolyglotOrder : PolyglotOrder[i] = class

\* the polyglot rules of a list are in the documented order, each at most once
PolyglotInOrder(c) ==
  LET Held(class) == \E i \in DOMAIN c : c[i] = class
  IN SelectSeq(c, IsPolyglot) = SelectSeq(PolyglotOrder, Held)

\* the polyglot rules are the last rules of a list
PolyglotLast(c) ==
  \A i, j \in DOMAIN c : i < j /\ IsPolyglot(c[i]) => IsPolyglot(c[j])

\* the list starts with its only line-scrubber
LineScrubberFirst(c) ==
  /\ c # <<>>
  /\ \A i \in DOMAIN c : c[i] = "LineScrubber" <=> i = 1

\* C23 (as stated): the per-file list of every code-language extension is the
\* single line-scrubber, then the language-specific rules, then the polyglot
\* rules in the order Replacer, RegexReplacer, word matcher, regex matcher.
C23_LineSpecificPolyglot ==
  pc = "configured" =>
    \A ext \in CodeExtensions :
      /\ LineScrubberFirst(Classes(ext_out, ext))
      /\ PolyglotLast(Classes(ext_out, ext))
      /\ PolyglotInOrder(Classes(ext_out, ext))

\* C23 (amended): the stated order holds of the .java, .jj, .js, .jslib, .php,
\* .php4, .php5, .proto and .protodevel lists. The .py list ends with its
\* single line-scrubber and the polyglot rules in the stated order, but a
\* comment scrubber and the shebang replacer, if any, precede the
\* line-scrubber. The .go, .h, .c, .cc, .l and .swig lists hold no
\* line-scrubber: they are the polyglot rules in the stated order, followed by
\* the include scrubber if c_includes_config_file is set.
C23_OrderByLanguage ==
  pc = "configured" =>
    /\ \A ext \in JavaExtensions \cup JsExtensions \cup PhpExtensions
                    \cup ProtoExtensions :
         /\ LineScrubberFirst(Classes(ext_out, ext))
         /\ PolyglotLast(Classes(ext_out, ext))
         /\ PolyglotInOrder(Classes(ext_out, ext))
    /\ LET c == Classes(ext_out, ".py")
       IN /\ PolyglotLast(c)
          /\ PolyglotInOrder(c)
          /\ \E l \in DOMAIN c :
               /\ c[l] = "LineScrubber"
               /\ \A i \in DOMAIN c :
                    /\ i > l => IsPolyglot(c[i])
                    /\ i < l => c[i] = (IF i = 1 THEN "CommentScrubber"
                                                ELSE "PythonShebangReplace")
          /\ c[1] = "CommentScrubber"
    /\ \A ext \in GoAndCExtensions :
         LET c == Classes(ext_out, ext)
         IN /\ PolyglotInOrder(c)
            /\ \A i \in DOMAIN c :
                 \/ IsPolyglot(c[i])
                 \/ /\ c[i] = "IncludeScrubber"
                    /\ i = Len(c)
                    /\ ~Falsy(ext_out.options.c_includes_config_file)
            /\ ~Falsy(ext_out.options.c_includes_config_file)
                 => c[Len(c)] = "IncludeScrubber"

\* C23 witness: a config with string replacements and Java renames was
\* loaded, so the .java list holds rules of all three groups.
C23_Witness ==
  /\ pc = "configured"
  /\ ext_out.options.string_replacements # <<>>
  /\ ext_out.options.java_renames # <<>>
  /\ Len(ext_out.extension_to_scrubber_map[".java"]) >= 6

-----------------------------------------------------------------------------
(* SpecMain: main from its arguments and flags to the choice of the config *)

\* the number of files of --explicit_inputfile_list
MaxInputs == 2

\* os.path.normpath of an absolute path, by its components
RECURSIVE Normpath(_, _)
Normpath(components, done) ==
  IF components = <<>> THEN done
  ELSE IF Head(components) \in {<<>>, <<".">>}
    THEN Normpath(Tail(components), done)
  ELSE IF Head(components) = <<".", ".">>
    THEN Normpath(Tail(components),
                  IF done = <<>> THEN done ELSE SubSeq(done, 1, Len(done) - 1))
  ELSE Normpath(Tail(components), Append(done, Head(components)))

RECURSIVE Join(_)
Join(components) ==
  IF components = <<>> THEN <<>>
  ELSE <<"/">> \o Head(components) \o Join(Tail(components))

\* os.path.abspath(path) in a process whose working directory is cwd
abspath(path, cwd) ==
  LET full == IF StartsWith(path, <<"/">>) THEN path
              ELSE cwd \o <<"/">> \o path
      normal == Join(Normpath(Components(full), <<>>))
  IN IF normal = <<>> THEN <<"/">> ELSE normal

\* os.path.commonprefix(m): the longest string every name of m starts with,
\* character by character
commonprefix(m) ==
  IF m = <<>> THEN <<>>
  ELSE LET ns == {n \in 0..Len(m[1]) :
                    \A i \in DOMAIN m : StartsWith(m[i], SubSeq(m[1], 1, n))}
       IN SubSeq(m[1], 1, CHOOSE n \in ns : \A k \in ns : k <= n)

\* ValidateInputFileList: the pair (error string, list); the error string None
\* of a success is the empty string
ValidateInputFileList(candidate_inputs, abs_codebase, cwd) ==
  LET result == [i \in DOMAIN candidate_inputs |->
                   abspath(candidate_inputs[i], cwd)]
      unique_inputs == {result[i] : i \in DOMAIN result}
  IN IF Cardinality(unique_inputs) # Len(result)
       THEN <<"Some input files are listed more than once.", None>>
     ELSE IF ~StartsWith(commonprefix(result), abs_codebase)
       THEN <<"Files must be underneath codebase", None>>
     ELSE <<"", result>>

\* CreateInputFileListFromDir, given what os.path.isdir and os.walk find
CreateInputFileListFromDir(src_dir, walk) ==
  IF ~walk.isdir THEN <<"not a directory", <<>> >>
  ELSE <<"", [i \in DOMAIN walk.filenames |->
                src_dir \o <<"/">> \o walk.filenames[i]]>>

\* GetInputFiles(codebase); the flag holds its value split at whitespace
GetInputFiles(codebase, flags) ==
  IF flags.explicit_inputfile_list.given
    THEN ValidateInputFileList(flags.explicit_inputfile_list.inputs, codebase,
                               flags.cwd)
    ELSE CreateInputFileListFromDir(codebase, flags.walk)

\* BadCommand(message): app.usage(..., exitcode=3) ends the process
BadCommand(message) ==
  /\ pc' = "exited"
  /\ ext_out' = [exitcode |-> 3, message |-> message]

\* the names --explicit_inputfile_list can hold
InputNames ==
  { <<"/", "r", "/", "a">>, <<"/", "r", "/", "c">>, <<"a">>,
    <<".", "/", "a">>, <<"/", "r", "/", ".", ".", "/", "c">>,
    <<"/", "r", "c", "/", "a">>, <<"/", "c">>, <<"/", "r">> }

RECURSIVE InputLists(_)
InputLists(n) ==
  IF n = 0 THEN {<<>>}
  ELSE InputLists(n - 1)
       \cup {Append(l, name) :
               l \in {k \in InputLists(n - 1) : Len(k) = n - 1},
               name \in InputNames}

InitMain ==
  /\ pc = "main"
  /\ ext_in \in
       [args : {<<"scrubber">>, <<"scrubber", Codebase>>,
                <<"scrubber", Codebase, Codebase>>},
        config_file : {<<>>, <<"c">>},
        config_data : {<<>>, <<"{", "}">>},
        explicit_inputfile_list :
          {[given |-> FALSE, inputs |-> <<>>]}
          \cup [given : {TRUE}, inputs : InputLists(MaxInputs)],
        cwd : {Codebase, <<"/">>},
        walk : {[isdir |-> FALSE, filenames |-> <<>>],
                [isdir |-> TRUE, filenames |-> <<>>],
                [isdir |-> TRUE, filenames |-> <<TheFile>>]}]
  /\ ext_out = <<>>
  /\ disk = <<>>
  /\ files = <<>>
  /\ IdleRun
  /\ IdleFile

\* main without the check of the two config flags
MainUsageAnyFlags ==
  /\ pc = "main"
  /\ IF Len(ext_in.args) # 2
       THEN BadCommand("Must list exactly one directory to scrub.")
     ELSE /\ pc' = "inputs"
          /\ ext_out' = [codebase |-> abspath(ext_in.args[2], ext_in.cwd)]
  /\ UNCHANGED <<ext_in, disk, files, runVars, fileVars>>


\* main: the checks of the arguments and of the two config flags
MainUsage ==
  /\ pc = "main"
  /\ IF Len(ext_in.args) # 2
       THEN BadCommand("Must list exactly one directory to scrub.")
     ELSE IF ext_in.config_data # <<>> /\ ext_in.config_file # <<>>
       THEN BadCommand("Specify at most one of --config_data and --config_file.")
     ELSE /\ pc' = "inputs"
          /\ ext_out' = [codebase |-> abspath(ext_in.args[2], ext_in.cwd)]
  /\ UNCHANGED <<ext_in, disk, files, runVars, fileVars>>

\* main: (err_str, input_files) = GetInputFiles(codebase)
MainGetInputFiles ==
  /\ pc = "inputs"
  /\ LET got == GetInputFiles(ext_out.codebase, ext_in)
     IN IF got[1] # ""
          THEN BadCommand(got[1])
          ELSE /\ pc' = "config"
               /\ ext_out' = [codebase |-> ext_out.codebase,
                              input_files |-> got[2]]
  /\ UNCHANGED <<ext_in, disk, files, runVars, fileVars>>

\* main: the config is parsed from --config_file, loaded from --config_data,
\* or the empty JSON object; the context is built from it and scanned
MainConfig ==
  /\ pc = "config"
  /\ ext_out' = [codebase |-> ext_out.codebase,
                 input_files |-> ext_out.input_files,
                 config |-> IF ext_in.config_file # <<>> THEN "ParseConfigFile"
                            ELSE IF ext_in.config_data # <<>> THEN "LoadConfig"
                            ELSE "{}"]
  /\ pc' = "context"
  /\ UNCHANGED <<ext_in, disk, files, runVars, fileVars>>

NextMain == MainUsage \/ MainGetInputFiles \/ MainConfig

SpecMain == InitMain /\ [][NextMain]_vars

\* how many of --config_file and --config_data the command line gives
ConfigFlags ==
  (IF ext_in.config_file # <<>> THEN 1 ELSE 0)
  + (IF ext_in.config_data # <<>> THEN 1 ELSE 0)

\* the run passed main's checks of its command line
Accepted == pc \in {"inputs", "config", "context"}

\* the run ended with the bad-usage exit code, nothing scanned or written
BadUsage ==
  /\ pc = "exited"
  /\ ext_out.exitcode = 3
  /\ files = <<>>
  /\ disk = <<>>
  /\ IdleRun

\* C22 (as stated): a run is accepted only with exactly one of --config_file
\* and --config_data; with both or with neither it ends with exit code 3
\* before any file is scanned or written.
C22_ExactlyOneConfigFlag ==
  /\ Accepted => ConfigFlags = 1
  /\ pc # "main" /\ ConfigFlags # 1 => BadUsage

\* C22 (amended): a run is accepted only with at most one of --config_file and
\* --config_data; with both it ends with exit code 3 before any file is
\* scanned or written; with neither it passes the check of the flags, is
\* rejected only for its input files, and runs with the empty config.
C22_AtMostOneConfigFlag ==
  /\ Accepted => ConfigFlags <= 1
  /\ pc # "main" /\ ConfigFlags = 2 => BadUsage
  /\ pc # "main" /\ ConfigFlags = 0 /\ Len(ext_in.args) = 2
       => \/ Accepted
          \/ /\ BadUsage
             /\ ext_out.message
                  = GetInputFiles(abspath(ext_in.args[2], ext_in.cwd),
                                  ext_in)[1]
  /\ pc = "context" /\ ConfigFlags = 0 => ext_out.config = "{}"

\* C22 witness: a run with one directory and both flags ended in BadCommand
\* for its flags.
C22_Witness ==
  /\ BadUsage
  /\ ConfigFlags = 2
  /\ Len(ext_in.args) = 2
  /\ ext_out.message
       = "Specify at most one of --config_data and --config_file."

\* a path is the directory or a path inside it
Underneath(path, directory) ==
  path = directory \/ StartsWith(path, directory \o <<"/">>)

\* main called ValidateInputFileList on the files of the flag
Validated ==
  /\ pc \in {"config", "context", "exited"}
  /\ Len(ext_in.args) = 2
  /\ ConfigFlags <= 1
  /\ ext_in.explicit_inputfile_list.given

\* C26: ValidateInputFileList accepts a list only if no file is listed twice
\* and every file is the codebase directory or a path inside it; otherwise it
\* returns an error string and no file list.
C26_AcceptedListUnderCodebase ==
  Validated =>
    LET returned ==
          ValidateInputFileList(ext_in.explicit_inputfile_list.inputs,
                                abspath(ext_in.args[2], ext_in.cwd),
                                ext_in.cwd)
    IN /\ returned[1] # "" => returned[2] = None /\ pc = "exited"
       /\ returned[1] = "" =>
            /\ pc # "exited"
            /\ \A i, j \in DOMAIN returned[2] :
                 returned[2][i] = returned[2][j] => i = j
            /\ \A i \in DOMAIN returned[2] :
                 Underneath(returned[2][i],
                            abspath(ext_in.args[2], ext_in.cwd))

====
